---- MODULE Spec2Model ----
(***************************************************************************)
(* Construction-report bot: the report life cycle (draft -> sent), the     *)
(* draft builder that accumulates ITR / workers / equipment / photos /     *)
(* comments, the cascading deletions of objects, clients and reports, and  *)
(* the access-code login, over a relational store with foreign keys.       *)
(*                                                                         *)
(* The store is PostgreSQL (config/settings.py DB_PORT 5432): foreign keys *)
(* are enforced at every statement, a failed statement aborts the          *)
(* transaction, sequences hand out fresh ids.  A handler owns one session; *)
(* what it has not committed when the session is closed is rolled back.    *)
(***************************************************************************)
EXTENDS Integers, Sequences, FiniteSets, Bags, TLC

VARIABLES
    db,      \* the committed content of the store
    seq,     \* the id sequences of the store (never rolled back)
    clock,   \* datetime.utcnow(), as a logical clock
    fsm,     \* the administrator's conversation: aiogram FSM state and data
    upload,  \* the report id of a photo whose download is in flight, or NULL
    auth,    \* the telegram users asked for an access code; the codes consumed
    inflight, \* the transactions of the handlers that run at the same time
    last     \* the last operation: its name, arguments, outcome, statements

vars == <<db, seq, clock, fsm, upload, auth, inflight, last>>

(***************************************************************************)
(* Bounds of the model.                                                    *)
(***************************************************************************)
NumObjects == 2
NumClients == 2
NumITR == 2
NumWorkers == 3
NumEquipment == 2
MaxReports == 2
MaxPhotos == 2
MaxClock == 2
NumTelegram == 2
NumChats == 2
MaxQueryReports == 3
MaxDate == 3
DayLength == 3
MaxNow == 7
NumPersonnelWorkers == 1
NumPersonnelEquipment == 1

NULL == 0
NULLSTR == "NULL"

ObjectIds == 1..NumObjects
ClientIds == 1..NumClients
ITRIds == 1..NumITR
WorkerIds == 1..NumWorkers
EquipmentIds == 1..NumEquipment
ReportIds == 1..MaxReports
TelegramIds == 1..NumTelegram

(***************************************************************************)
(* Values of the columns.                                                  *)
(***************************************************************************)
ADMIN_ROLE == "admin"
CLIENT_ROLE == "client"

\* WORK_TYPE_NAMES: the keyboard's work types and their stored names
WorkTypes == {"landscaping"}
WORK_TYPE_NAMES(key) ==
    CASE key = "report_engineering" -> "Inzhenernye kommunikacii"
      [] key = "report_internal_networks" -> "Vnutriploshchadochnye seti"
      [] key = "report_landscaping" -> "Blagoustrojstvo"
      [] key = "report_general_construction" -> "Obshchestroitelnye raboty"
      [] OTHER -> NULLSTR

valid_report_types ==
    {"Inzhenernye kommunikacii", "Vnutriploshchadochnye seti",
     "Blagoustrojstvo", "Obshchestroitelnye raboty"}

valid_types == {"morning", "evening"}

Texts == {"t1", "t2"}

(***************************************************************************)
(* Helpers on functions and bags.                                          *)
(***************************************************************************)
Restrict(f, S) == [x \in S |-> f[x]]

\* a join table (a bag of pairs) without the rows whose first / second
\* component is k
BagWithoutFirst(B, k) == Restrict(B, {x \in DOMAIN B : x[1] # k})
BagWithoutSecond(B, k) == Restrict(B, {x \in DOMAIN B : x[2] # k})

BagAdd(B, x) == B (+) SetToBag({x})

\* the second components of the rows of a join table whose first is r
RowsOf(B, r) == {x[2] : x \in {y \in DOMAIN B : y[1] = r}}

PairBag(r, S) == SetToBag({<<r, x>> : x \in S})

RECURSIVE SetToSeq(_)
SetToSeq(S) ==
    IF S = {} THEN <<>>
    ELSE LET m == CHOOSE x \in S : \A y \in S : x <= y
         IN <<m>> \o SetToSeq(S \ {m})

\* the sequences that list every element of S once
Orders(S) ==
    {p \in [1..Cardinality(S) -> S] : \A x \in S : \E i \in DOMAIN p : p[i] = x}

SelectOrder(ord, S) == SelectSeq(ord, LAMBDA x : x \in S)

(***************************************************************************)
(* The store: tables of database/models.py.                                *)
(*   users         id -> [telegram_id, role, access_code]; an access code  *)
(*                 is a positive number, NULL is no code                   *)
(*   clients       id -> [user_id]                                         *)
(*   objects       set of ids                                              *)
(*   itr, workers, equipment     sets of ids                               *)
(*   reports       id -> [object_id, type, report_type, comments, status,  *)
(*                        sent_at, recipient_id]                           *)
(*   report_photos id -> report_id                                         *)
(*   client_objects, report_itr, report_workers, report_equipment          *)
(*                 join tables without a key: bags of pairs                *)
(***************************************************************************)
EmptyFcn == [x \in {} |-> NULL]

EmptyDb ==
    [users |-> EmptyFcn, clients |-> EmptyFcn, objects |-> {},
     itr |-> {}, workers |-> {}, equipment |-> {},
     reports |-> EmptyFcn, report_photos |-> EmptyFcn,
     client_objects |-> EmptyBag, report_itr |-> EmptyBag,
     report_workers |-> EmptyBag, report_equipment |-> EmptyBag]

User(tg, role, code) == [telegram_id |-> tg, role |-> role, access_code |-> code]

Report(o, type, rtype, comments, status, sent_at, recipient) ==
    [object_id |-> o, type |-> type, report_type |-> rtype, comments |-> comments,
     status |-> status, sent_at |-> sent_at, recipient_id |-> recipient]

\* Foreign keys of models.py, as the rows of d that reference a parent row
RefsReport(d, r) ==
    \/ \E x \in DOMAIN d.report_itr : x[1] = r
    \/ \E x \in DOMAIN d.report_workers : x[1] = r
    \/ \E x \in DOMAIN d.report_equipment : x[1] = r
    \/ \E p \in DOMAIN d.report_photos : d.report_photos[p] = r

RefsObject(d, o) ==
    \/ \E r \in DOMAIN d.reports : d.reports[r].object_id = o
    \/ \E x \in DOMAIN d.client_objects : x[2] = o

RefsClient(d, c) == \E x \in DOMAIN d.client_objects : x[1] = c

RefsUser(d, u) ==
    \/ \E c \in DOMAIN d.clients : d.clients[c].user_id = u
    \/ \E r \in DOMAIN d.reports : d.reports[r].recipient_id = u

\* every foreign key of d refers to an existing row
ForeignKeysHold(d) ==
    /\ \A c \in DOMAIN d.clients : d.clients[c].user_id \in DOMAIN d.users
    /\ \A x \in DOMAIN d.client_objects : x[1] \in DOMAIN d.clients /\ x[2] \in d.objects
    /\ \A r \in DOMAIN d.reports :
          /\ d.reports[r].object_id \in d.objects
          /\ d.reports[r].recipient_id \in DOMAIN d.users \cup {NULL}
    /\ \A x \in DOMAIN d.report_itr : x[1] \in DOMAIN d.reports /\ x[2] \in d.itr
    /\ \A x \in DOMAIN d.report_workers : x[1] \in DOMAIN d.reports /\ x[2] \in d.workers
    /\ \A x \in DOMAIN d.report_equipment : x[1] \in DOMAIN d.reports /\ x[2] \in d.equipment
    /\ \A p \in DOMAIN d.report_photos : d.report_photos[p] \in DOMAIN d.reports

(***************************************************************************)
(* A session (AsyncSession, database/session.py).  c is the committed      *)
(* store, t the session's view with its uncommitted statements, sq the     *)
(* sequences, log the statements executed, err whether an exception is     *)
(* propagating.  fuel is the number of statements the store still executes *)
(* before it raises a storage failure (-1: it never does).                 *)
(***************************************************************************)
NoFailure == 0 - 1

Begin(d, sq, k) ==
    [c |-> d, t |-> d, sq |-> sq, fuel |-> k, err |-> FALSE, log |-> <<>>]

Stmt(op, id) == [op |-> op, id |-> id]

\* session.execute of one statement: stmt turns the view into newT unless it
\* violates a constraint; an exception already propagating skips it
Execute(s, stmt, newT, violates) ==
    IF s.err THEN s
    ELSE IF s.fuel = 0 \/ violates THEN [s EXCEPT !.err = TRUE, !.fuel = NoFailure]
    ELSE [s EXCEPT !.t = newT,
                   !.fuel = IF @ > 0 THEN @ - 1 ELSE @,
                   !.log = Append(@, stmt)]

\* session.commit()
Commit(s) ==
    IF s.err THEN s
    ELSE IF s.fuel = 0 THEN [s EXCEPT !.err = TRUE, !.fuel = NoFailure]
    ELSE [s EXCEPT !.c = s.t,
                   !.fuel = IF @ > 0 THEN @ - 1 ELSE @,
                   !.log = Append(@, Stmt("commit", NULL))]

\* session.rollback(), and session.close() of work not committed
Rollback(s) == [s EXCEPT !.t = s.c]

(***************************************************************************)
(* Statements of database/crud.py.                                         *)
(***************************************************************************)
\* a delete of report_equipment that removes no row
DeleteReportEquipmentSkipped(s, r) ==
    Execute(s, Stmt("delete_report_equipment", r), s.t, FALSE)

\* the delete of report_equipment on a connection in autocommit
DeleteReportEquipmentAutocommit(s, r) ==
    Commit(Execute(s, Stmt("delete_report_equipment", r),
                   [s.t EXCEPT !.report_equipment = BagWithoutFirst(@, r)], FALSE))

\* delete(report_equipment).where(report_equipment.c.report_id == r)
DeleteReportEquipment(s, r) ==
    Execute(s, Stmt("delete_report_equipment", r),
            [s.t EXCEPT !.report_equipment = BagWithoutFirst(@, r)], FALSE)

\* delete(report_itr).where(report_itr.c.report_id == r)
DeleteReportItr(s, r) ==
    Execute(s, Stmt("delete_report_itr", r),
            [s.t EXCEPT !.report_itr = BagWithoutFirst(@, r)], FALSE)

\* delete(report_workers).where(report_workers.c.report_id == r)
DeleteReportWorkers(s, r) ==
    Execute(s, Stmt("delete_report_workers", r),
            [s.t EXCEPT !.report_workers = BagWithoutFirst(@, r)], FALSE)

\* delete(ReportPhoto).where(ReportPhoto.report_id == r)
DeleteReportPhotos(s, r) ==
    Execute(s, Stmt("delete_report_photos", r),
            [s.t EXCEPT !.report_photos =
                Restrict(@, {p \in DOMAIN @ : @[p] # r})], FALSE)

\* delete(Report).where(Report.id == r)
DeleteReportRow(s, r) ==
    Execute(s, Stmt("delete_report", r),
            [s.t EXCEPT !.reports = Restrict(@, DOMAIN @ \ {r})],
            RefsReport(s.t, r))

\* DELETE FROM client_objects WHERE object_id = o
DeleteClientObjectsOfObject(s, o) ==
    Execute(s, Stmt("delete_client_objects_of_object", o),
            [s.t EXCEPT !.client_objects = BagWithoutSecond(@, o)], FALSE)

DeleteClientObjectsOfClientObjects(s, c) ==
    Execute(s, Stmt("delete_client_objects_of_client", c),
            [s.t EXCEPT !.client_objects =
                Restrict(@, {x \in DOMAIN @ : x[2] \notin RowsOf(s.t.client_objects, c)})],
            FALSE)

\* DELETE FROM client_objects WHERE client_id = c
DeleteClientObjectsOfClient(s, c) ==
    Execute(s, Stmt("delete_client_objects_of_client", c),
            [s.t EXCEPT !.client_objects = BagWithoutFirst(@, c)], FALSE)

\* delete(Object).where(Object.id == o)
DeleteObjectRow(s, o) ==
    Execute(s, Stmt("delete_object", o),
            [s.t EXCEPT !.objects = @ \ {o}], RefsObject(s.t, o))

\* delete(Client).where(Client.id == c)
DeleteClientRow(s, c) ==
    Execute(s, Stmt("delete_client", c),
            [s.t EXCEPT !.clients = Restrict(@, DOMAIN @ \ {c})], RefsClient(s.t, c))

\* delete(User).where(User.id == u)
DeleteUserRow(s, u) ==
    Execute(s, Stmt("delete_user", u),
            [s.t EXCEPT !.users = Restrict(@, DOMAIN @ \ {u})], RefsUser(s.t, u))

(***************************************************************************)
(* The cascades of database/crud.py.  Each returns [s, ret]: the session   *)
(* after the call and "true", "false" or "raised".  The except branches    *)
(* roll back and re-raise.                                                 *)
(***************************************************************************)
\* Returned with the exception swallowed: the caller is told ret
ReturnedSwallowed(s, ret) == [s |-> Rollback(s), ret |-> ret]

Returned(s, ret) ==
    IF s.err THEN [s |-> Rollback(s), ret |-> "raised"] ELSE [s |-> s, ret |-> ret]

\* delete_report_relations: the join rows and photos of r, then a commit
delete_report_relations(s, r) ==
    LET s1 == DeleteReportEquipment(s, r)
        s2 == DeleteReportItr(s1, r)
        s3 == DeleteReportWorkers(s2, r)
        s4 == DeleteReportPhotos(s3, r)
        s5 == Commit(s4)
    IN  IF s5.err THEN Rollback(s5) ELSE s5

\* the loop with the Report row deleted before its relations
RECURSIVE DeleteReportsLoopRowFirst(_, _)
DeleteReportsLoopRowFirst(s, reports) ==
    IF reports = <<>> THEN s
    ELSE DeleteReportsLoopRowFirst(
            delete_report_relations(DeleteReportRow(s, Head(reports)), Head(reports)),
            Tail(reports))

\* the loop "for report in reports" of delete_object and delete_client
RECURSIVE DeleteReportsLoop(_, _)
DeleteReportsLoop(s, reports) ==
    IF reports = <<>> THEN s
    ELSE DeleteReportsLoop(
            DeleteReportRow(delete_report_relations(s, Head(reports)), Head(reports)),
            Tail(reports))

\* select(Report).where(Report.object_id == o), in the order ord of the rows
ReportsOfObject(d, o, ord) ==
    SelectOrder(ord, {r \in DOMAIN d.reports : d.reports[r].object_id = o})

delete_report_relations_only(s, r) ==
    IF r \notin DOMAIN s.t.reports THEN [s |-> s, ret |-> "false"]
    ELSE Returned(Commit(delete_report_relations(s, r)), "true")

delete_report(s, r) ==
    IF r \notin DOMAIN s.t.reports THEN [s |-> s, ret |-> "false"]
    ELSE Returned(Commit(DeleteReportRow(delete_report_relations(s, r), r)), "true")

delete_object_reporting_success(s, o, ord) ==
    IF o \notin s.t.objects THEN [s |-> Commit(s), ret |-> "true"]
    ELSE LET reports == ReportsOfObject(s.t, o, ord)
             s3 == DeleteReportsLoop(s, reports)
             s4 == DeleteClientObjectsOfObject(s3, o)
             s5 == DeleteObjectRow(s4, o)
         IN  Returned(Commit(s5), "true")

delete_object(s, o, ord) ==
    IF o \notin s.t.objects THEN [s |-> s, ret |-> "false"]
    ELSE LET reports == ReportsOfObject(s.t, o, ord)
             s3 == DeleteReportsLoop(s, reports)
             s4 == DeleteClientObjectsOfObject(s3, o)
             s5 == DeleteObjectRow(s4, o)
         IN  Returned(Commit(s5), "true")

\* the loop "for object_id in object_ids" of delete_client
RECURSIVE DeleteObjectsReportsLoop(_, _, _)
DeleteObjectsReportsLoop(s, object_ids, ord) ==
    IF object_ids = <<>> \/ s.err THEN s
    ELSE DeleteObjectsReportsLoop(
            DeleteReportsLoop(s, ReportsOfObject(s.t, Head(object_ids), ord)),
            Tail(object_ids), ord)

delete_client_keeping_user(s, c, ord) ==
    IF c \notin DOMAIN s.t.clients THEN [s |-> s, ret |-> "false"]
    ELSE LET object_ids == SetToSeq(RowsOf(s.t.client_objects, c))
             s3 == DeleteObjectsReportsLoop(s, object_ids, ord)
             s4 == DeleteClientObjectsOfClient(s3, c)
             s5 == DeleteClientRow(s4, c)
         IN  Returned(Commit(s5), "true")

delete_client(s, c, ord) ==
    IF c \notin DOMAIN s.t.clients THEN [s |-> s, ret |-> "false"]
    ELSE LET user_id == s.t.clients[c].user_id
             object_ids == SetToSeq(RowsOf(s.t.client_objects, c))
             s3 == DeleteObjectsReportsLoop(s, object_ids, ord)
             s4 == DeleteClientObjectsOfClient(s3, c)
             s5 == DeleteClientRow(s4, c)
             s6 == IF user_id # NULL THEN DeleteUserRow(s5, user_id) ELSE s5
         IN  Returned(Commit(s6), "true")

(***************************************************************************)
(* Rows of reports, report_equipment and report_photos.                    *)
(***************************************************************************)
\* the columns of Report that the handlers read or write (work_subtype is
\* read by no operation modelled here; date is read by the date queries
\* only, and the stores of SpecQuery carry it)
ReportColumns ==
    {"object_id", "type", "report_type", "comments", "status", "sent_at", "recipient_id"}

\* Column defaults of Report: status "draft", everything else NULL
DefaultReport == Report(NULL, NULLSTR, NULLSTR, NULLSTR, "draft", NULL, NULL)

ReportRowOkAnyObject(d, row) ==
    /\ row.type # NULLSTR
    /\ row.report_type # NULLSTR
    /\ row.recipient_id \in DOMAIN d.users \cup {NULL}

\* NOT NULL and FOREIGN KEY constraints of a row of reports
ReportRowOk(d, row) ==
    /\ row.object_id \in d.objects
    /\ row.type # NULLSTR
    /\ row.report_type # NULLSTR
    /\ row.recipient_id \in DOMAIN d.users \cup {NULL}

InsertReportUnchecked(s, row) ==
    IF s.err THEN s
    ELSE LET id == s.sq.reports + 1
             s1 == [s EXCEPT !.sq.reports = id]
         IN  Execute(s1, Stmt("insert_report", id),
                     [s.t EXCEPT !.reports = (id :> row) @@ @], FALSE)

\* INSERT INTO reports: the sequence hands out the id
InsertReport(s, row) ==
    IF s.err THEN s
    ELSE LET id == s.sq.reports + 1
             s1 == [s EXCEPT !.sq.reports = id]
         IN  Execute(s1, Stmt("insert_report", id),
                     [s.t EXCEPT !.reports = (id :> row) @@ @],
                     ~ReportRowOk(s.t, row))

UpdateReportUnsetOnly(s, r, fields) ==
    IF r \notin DOMAIN s.t.reports
    THEN Execute(s, Stmt("update_report", r), s.t, FALSE)
    ELSE LET old == s.t.reports[r]
             row == [c \in DOMAIN old |->
                       IF c \in DOMAIN fields /\ (c # "comments" \/ old[c] = NULLSTR)
                       THEN fields[c] ELSE old[c]]
         IN  Execute(s, Stmt("update_report", r),
                     [s.t EXCEPT !.reports[r] = row], ~ReportRowOk(s.t, row))

\* UPDATE reports SET fields WHERE id = r
UpdateReport(s, r, fields) ==
    IF r \notin DOMAIN s.t.reports
    THEN Execute(s, Stmt("update_report", r), s.t, FALSE)
    ELSE LET row == fields @@ s.t.reports[r]
         IN  Execute(s, Stmt("update_report", r),
                     [s.t EXCEPT !.reports[r] = row], ~ReportRowOk(s.t, row))

\* report_equipment.insert().values(report_id=r, equipment_id=e)
InsertReportEquipment(s, r, e) ==
    Execute(s, Stmt("insert_report_equipment", e),
            [s.t EXCEPT !.report_equipment = BagAdd(@, <<r, e>>)],
            r \notin DOMAIN s.t.reports \/ e \notin s.t.equipment)

RECURSIVE InsertReportEquipmentLoop(_, _, _)
InsertReportEquipmentLoop(s, r, equipment_list) ==
    IF equipment_list = <<>> THEN s
    ELSE InsertReportEquipmentLoop(InsertReportEquipment(s, r, Head(equipment_list)),
                                   r, Tail(equipment_list))

\* the flush of report.workers = workers of a new report
InsertReportWorkers(s, r, workers) ==
    IF workers = {} THEN s
    ELSE Execute(s, Stmt("insert_report_workers", r),
                 [s.t EXCEPT !.report_workers = @ (+) PairBag(r, workers)],
                 r \notin DOMAIN s.t.reports)

InsertReportPhotoReplacing(s, r) ==
    IF s.err THEN s
    ELSE LET id == s.sq.photos + 1
             s1 == [s EXCEPT !.sq.photos = id]
             kept == {p \in DOMAIN s.t.report_photos : s.t.report_photos[p] # r}
         IN  Execute(s1, Stmt("insert_report_photo", id),
                     [s.t EXCEPT !.report_photos = (id :> r) @@ Restrict(@, kept)],
                     r \notin DOMAIN s.t.reports)

\* INSERT INTO report_photos in a store that does not enforce the foreign key
InsertReportPhotoUnchecked(s, r) ==
    IF s.err THEN s
    ELSE LET id == s.sq.photos + 1
             s1 == [s EXCEPT !.sq.photos = id]
         IN  Execute(s1, Stmt("insert_report_photo", id),
                     [s.t EXCEPT !.report_photos = (id :> r) @@ @], FALSE)

\* INSERT INTO report_photos
InsertReportPhoto(s, r) ==
    IF s.err THEN s
    ELSE LET id == s.sq.photos + 1
             s1 == [s EXCEPT !.sq.photos = id]
         IN  Execute(s1, Stmt("insert_report_photo", id),
                     [s.t EXCEPT !.report_photos = (id :> r) @@ @],
                     r \notin DOMAIN s.t.reports)

(***************************************************************************)
(* The conversation data (FSMContext): a dictionary, here a function whose *)
(* domain is the set of keys present.                                      *)
(***************************************************************************)
EmptyData == [key \in {} |-> NULL]

\* dict.get(key, default)
Get(data, key, default) == IF key \in DOMAIN data THEN data[key] ELSE default

\* state.update_data(**upd)
update_data(data, upd) == upd @@ data

\* state.clear()
Cleared == [state |-> "none", data |-> EmptyData]

\* the attributes of data, with the status reset to draft when data has none
ReportAttributesResetStatus(data) ==
    Restrict(data, DOMAIN data \cap ReportColumns) @@ [status |-> "draft"]

\* the keys of data that are attributes of Report: hasattr(report, key)
ReportAttributes(data) == Restrict(data, DOMAIN data \cap ReportColumns)

(***************************************************************************)
(* create_report, create_base_report, update_report (database/crud.py).    *)
(* Each returns [s, ret, id].                                              *)
(***************************************************************************)
Result(s, ret, id) ==
    IF s.err THEN [s |-> Rollback(s), ret |-> "raised", id |-> NULL]
    ELSE [s |-> s, ret |-> ret, id |-> id]

create_report(s, data) ==
    IF "report_id" \in DOMAIN data /\ data.report_id \in DOMAIN s.t.reports
    THEN \* the report exists: update it
         LET r == data.report_id
             s1 == IF "equipment_list" \in DOMAIN data
                   THEN InsertReportEquipmentLoop(DeleteReportEquipment(s, r), r,
                                                  SetToSeq(data.equipment_list))
                   ELSE s
             s2 == UpdateReport(s1, r, ReportAttributes(data))
         IN  Result(Commit(s2), "ok", r)
    ELSE \* a new report
         LET row == ReportAttributes(data) @@ DefaultReport
             s1 == InsertReport(s, row)
             id == s1.sq.reports
             workers == IF "workers_list" \in DOMAIN data
                        THEN data.workers_list \cap s.t.workers ELSE {}
             s2 == InsertReportWorkers(s1, id, workers)
             s3 == IF "equipment_list" \in DOMAIN data
                   THEN InsertReportEquipmentLoop(s2, id, SetToSeq(data.equipment_list))
                   ELSE s2
         IN  Result(Commit(s3), "ok", id)

create_base_report(s, data) ==
    LET row == Report(data.object_id, data.report_type,
                      Get(data, "work_type", "general_construction"),
                      NULLSTR, "draft", NULL, NULL)
        s1 == InsertReport(s, row)
    IN  Result(Commit(s1), "ok", s1.sq.reports)

\* no try: an exception leaves the session to be closed by the caller
update_report(s, r, report_data) ==
    LET s2 == Commit(UpdateReport(s, r, report_data))
    IN  [s |-> s2, ret |-> IF s2.err THEN "raised" ELSE "true"]

(***************************************************************************)
(* ReportService (services/report_service.py).                             *)
(***************************************************************************)
\* send_report: the exception of update_report is caught and False returned
send_report(s, r, recipient_id, now) ==
    LET u == update_report(s, r, [status |-> "sent", sent_at |-> now,
                                  recipient_id |-> recipient_id])
    IN  [s |-> u.s, ret |-> IF u.ret = "raised" THEN "false" ELSE "true"]

\* add_itr_to_report with report.itr_personnel.extend(the ITR found)
add_itr_to_report_extending(s, r, itr_ids) ==
    IF r \notin DOMAIN s.t.reports THEN [s |-> s, ret |-> "none"]
    ELSE LET added == (itr_ids \cap s.t.itr) \ RowsOf(s.t.report_itr, r)
             s1 == Execute(s, Stmt("insert_report_itr", r),
                           [s.t EXCEPT !.report_itr = @ (+) PairBag(r, added)], FALSE)
             s2 == Commit(s1)
         IN  IF s2.err THEN [s |-> Rollback(s2), ret |-> "none"]
             ELSE [s |-> s2, ret |-> "report"]

\* add_itr_to_report: report.itr_personnel = the ITR found; every exception
\* is caught, rolled back and None returned
add_itr_to_report(s, r, itr_ids) ==
    IF r \notin DOMAIN s.t.reports THEN [s |-> s, ret |-> "none"]
    ELSE LET itrs == itr_ids \cap s.t.itr
             s1 == Execute(s, Stmt("replace_report_itr", r),
                           [s.t EXCEPT !.report_itr =
                               BagWithoutFirst(@, r) (+) PairBag(r, itrs)], FALSE)
             s2 == Commit(s1)
         IN  IF s2.err THEN [s |-> Rollback(s2), ret |-> "none"]
             ELSE [s |-> s2, ret |-> "report"]

\* add_workers_to_report with report.workers = the workers found
add_workers_to_report_appending(s, r, worker_ids) ==
    LET workers == worker_ids \cap s.t.workers
        s1 == Execute(s, Stmt("insert_report_workers", r),
                      [s.t EXCEPT !.report_workers = @ (+) PairBag(r, workers)],
                      r \notin DOMAIN s.t.reports)
    IN  Commit(s1)

add_workers_to_report_replacing(s, r, worker_ids) ==
    LET workers == worker_ids \cap s.t.workers
        s1 == Execute(s, Stmt("replace_report_workers", r),
                      [s.t EXCEPT !.report_workers =
                          BagWithoutFirst(@, r) (+) PairBag(r, workers)],
                      r \notin DOMAIN s.t.reports)
    IN  Commit(s1)

\* add_workers_to_report: report.workers.extend(the workers found); the flush
\* inserts the rows of the workers that the collection did not hold
add_workers_to_report(s, r, worker_ids) ==
    LET workers == worker_ids \cap s.t.workers
        added == workers \ RowsOf(s.t.report_workers, r)
        s1 == IF added = {} THEN s
              ELSE Execute(s, Stmt("insert_report_workers", r),
                           [s.t EXCEPT !.report_workers = @ (+) PairBag(r, added)],
                           r \notin DOMAIN s.t.reports)
    IN  Commit(s1)

\* add_equipment_to_report: report.equipment = the equipment found
add_equipment_to_report(s, r, equipment_list) ==
    LET found == equipment_list \cap s.t.equipment
        s1 == Execute(s, Stmt("replace_report_equipment", r),
                      [s.t EXCEPT !.report_equipment =
                          BagWithoutFirst(@, r) (+) PairBag(r, found)],
                      r \notin DOMAIN s.t.reports)
    IN  Commit(s1)

(***************************************************************************)
(* validate_report_data (handlers/admin/report_edit.py): "ok" or the       *)
(* error raised.                                                           *)
(***************************************************************************)
required_fields ==
    <<"object_id", "report_type", "itr_list", "workers_list", "equipment_list">>

\* a validation that accepts every data
validate_report_data_accepting(data) == "ok"

validate_report_data(data) ==
    IF \E i \in 1..Len(required_fields) : required_fields[i] \notin DOMAIN data
    THEN "missing_field"
    ELSE IF data.report_type \notin valid_report_types THEN "bad_report_type"
    ELSE IF "type" \notin DOMAIN data THEN "KeyError"
    ELSE IF data.type \notin valid_types THEN "bad_type"
    ELSE "ok"

ValidationErrors == {"missing_field", "bad_report_type", "KeyError", "bad_type"}

(***************************************************************************)
(* Handlers.  Every handler is one action; a handler that opens a session  *)
(* takes the point k at which the store fails (NoFailure: it does not).    *)
(* last records the handler, its outcome, the id it was about and, for the *)
(* cascades, the statements it executed.                                   *)
(***************************************************************************)
MaxFailAt == 4

FailAt == {NoFailure} \cup 0..MaxFailAt

Op(op, ret, id, log) == [op |-> op, ret |-> ret, id |-> id, log |-> log]

\* callback_data.replace('_report', '')
ReportTypeCallbacks == {"morning_report"}
StripReport(callback_data) ==
    CASE callback_data = "morning_report" -> "morning"
      [] callback_data = "evening_report" -> "evening"

(***************************************************************************)
(* handlers/admin/report_create.py                                         *)
(***************************************************************************)
create_report_start ==
    /\ fsm' = IF db.objects = {} THEN fsm ELSE [fsm EXCEPT !.state = "select_object"]
    /\ last' = Op("create_report_start", "ok", NULL, <<>>)
    /\ UNCHANGED <<db, seq, clock, upload, inflight, auth>>

process_object_selection(object_id) ==
    /\ fsm.state = "select_object"
    /\ fsm' = [state |-> "select_work_type",
               data |-> update_data(fsm.data, [object_id |-> object_id])]
    /\ last' = Op("process_object_selection", "ok", object_id, <<>>)
    /\ UNCHANGED <<db, seq, clock, upload, inflight, auth>>

process_work_type_selection(work_type) ==
    /\ fsm.state = "select_work_type"
    /\ fsm' = [state |-> IF work_type = "landscaping" THEN "select_report_type"
                         ELSE "select_work_subtype",
               data |-> update_data(fsm.data, [work_type |-> work_type])]
    /\ last' = Op("process_work_type_selection", "ok", NULL, <<>>)
    /\ UNCHANGED <<db, seq, clock, upload, inflight, auth>>

process_report_type_selection(callback_data, k) ==
    /\ fsm.state = "select_report_type"
    /\ seq.reports < MaxReports
    /\ LET data == fsm.data
           work_type == Get(data, "work_type", "general_construction")
           name == WORK_TYPE_NAMES("report_" \o work_type)
           work_type_name == IF name # NULLSTR THEN name ELSE work_type
           type == StripReport(callback_data)
           v == IF "object_id" \notin DOMAIN data THEN "KeyError"
                ELSE validate_report_data(
                        [object_id |-> data.object_id, report_type |-> work_type_name,
                         type |-> type, itr_list |-> {}, workers_list |-> {},
                         equipment_list |-> {}])
       IN  IF v # "ok"
           THEN /\ last' = Op("process_report_type_selection", v, NULL, <<>>)
                /\ UNCHANGED <<db, seq, fsm>>
           ELSE LET b == create_base_report(Begin(db, seq, k),
                            [object_id |-> data.object_id, type |-> type,
                             report_type |-> work_type_name,
                             work_type |-> work_type_name])
                    state_data == [report_id |-> b.id, object_id |-> data.object_id,
                                   report_type |-> work_type_name, type |-> type,
                                   work_type |-> work_type_name,
                                   comments |-> Get(data, "comments", ""),
                                   itr_list |-> {}, workers_list |-> {},
                                   equipment_list |-> {}]
                IN  /\ db' = b.s.c
                    /\ seq' = b.s.sq
                    /\ fsm' = IF b.ret = "raised" THEN fsm
                              ELSE [state |-> "edit_report",
                                    data |-> update_data(data, state_data)]
                    /\ last' = Op("process_report_type_selection", b.ret, b.id, <<>>)
    /\ UNCHANGED <<clock, upload, inflight, auth>>

(***************************************************************************)
(* handlers/admin/report_edit.py, handlers/admin/report_export.py          *)
(***************************************************************************)
process_edit_report(report_id) ==
    /\ IF report_id \notin DOMAIN db.reports
       THEN /\ fsm' = fsm
            /\ last' = Op("process_edit_report", "not_found", report_id, <<>>)
       ELSE LET report == db.reports[report_id]
                state_data == [report_id |-> report_id,
                               object_id |-> report.object_id,
                               report_type |-> report.report_type,
                               type |-> report.type,
                               work_type |-> report.report_type,
                               comments |-> report.comments,
                               itr_list |-> RowsOf(db.report_itr, report_id),
                               workers_list |-> RowsOf(db.report_workers, report_id),
                               equipment_list |-> RowsOf(db.report_equipment, report_id)]
            IN  /\ fsm' = [state |-> "edit_report",
                           data |-> update_data(fsm.data, state_data)]
                /\ last' = Op("process_edit_report", "ok", report_id, <<>>)
    /\ UNCHANGED <<db, seq, clock, upload, inflight, auth>>

process_export_report(report_id) ==
    /\ IF report_id \notin DOMAIN db.reports
       THEN /\ fsm' = fsm
            /\ last' = Op("process_export_report", "not_found", report_id, <<>>)
       ELSE /\ fsm' = [fsm EXCEPT !.data = update_data(@, [report_id |-> report_id])]
            /\ last' = Op("process_export_report", "ok", report_id, <<>>)
    /\ UNCHANGED <<db, seq, clock, upload, inflight, auth>>

\* the report the conversation is about, if it is there
CurrentReport == Get(fsm.data, "report_id", NULL)

process_add_equipment ==
    /\ IF CurrentReport \notin DOMAIN db.reports \/ db.equipment = {}
       THEN /\ fsm' = fsm
            /\ last' = Op("process_add_equipment", "not_found", CurrentReport, <<>>)
       ELSE /\ fsm' = [state |-> "add_equipment",
                       data |-> update_data(fsm.data,
                          [equipment_list |-> RowsOf(db.report_equipment, CurrentReport)])]
            /\ last' = Op("process_add_equipment", "ok", CurrentReport, <<>>)
    /\ UNCHANGED <<db, seq, clock, upload, inflight, auth>>

process_equipment_selection(equipment_id) ==
    /\ fsm.state = "add_equipment"
    /\ IF CurrentReport \notin DOMAIN db.reports
       THEN /\ fsm' = fsm
            /\ last' = Op("process_equipment_selection", "not_found", CurrentReport, <<>>)
       ELSE LET equipment_list == Get(fsm.data, "equipment_list", {})
                toggled == IF equipment_id \in equipment_list
                           THEN equipment_list \ {equipment_id}
                           ELSE equipment_list \cup {equipment_id}
            IN  /\ fsm' = [fsm EXCEPT !.data =
                              update_data(@, [equipment_list |-> toggled])]
                /\ last' = Op("process_equipment_selection", "ok", CurrentReport, <<>>)
    /\ UNCHANGED <<db, seq, clock, upload, inflight, auth>>

process_equipment_done(k) ==
    /\ fsm.state = "add_equipment"
    /\ LET equipment_list == Get(fsm.data, "equipment_list", {})
       IN  IF CurrentReport \notin DOMAIN db.reports
           THEN /\ fsm' = Cleared
                /\ last' = Op("process_equipment_done", "not_found", CurrentReport, <<>>)
                /\ UNCHANGED <<db, seq>>
           ELSE IF equipment_list \cap db.equipment = {}
           THEN /\ last' = Op("process_equipment_done", "nothing_selected",
                              CurrentReport, <<>>)
                /\ UNCHANGED <<db, seq, fsm>>
           ELSE LET s == add_equipment_to_report(Begin(db, seq, k), CurrentReport,
                                                 equipment_list)
                IN  /\ db' = s.c
                    /\ seq' = s.sq
                    /\ fsm' = IF s.err THEN fsm ELSE [fsm EXCEPT !.state = "edit_report"]
                    /\ last' = Op("process_equipment_done",
                                  IF s.err THEN "raised" ELSE "ok", CurrentReport, <<>>)
    /\ UNCHANGED <<clock, upload, inflight, auth>>

process_add_photos ==
    /\ IF CurrentReport \notin DOMAIN db.reports
       THEN /\ fsm' = fsm
            /\ last' = Op("process_add_photos", "not_found", CurrentReport, <<>>)
       ELSE /\ fsm' = [fsm EXCEPT !.state = "add_photos"]
            /\ last' = Op("process_add_photos", "ok", CurrentReport, <<>>)
    /\ UNCHANGED <<db, seq, clock, upload, inflight, auth>>

\* process_photo up to "await message.bot.download": the report is looked up,
\* then the handler waits for the file while other handlers run
process_photo_received ==
    /\ fsm.state = "add_photos"
    /\ upload = NULL
    /\ seq.photos < MaxPhotos
    /\ IF CurrentReport \notin DOMAIN db.reports
       THEN /\ upload' = NULL
            /\ last' = Op("process_photo", "not_found", CurrentReport, <<>>)
       ELSE /\ upload' = CurrentReport
            /\ last' = Op("process_photo", "downloading", CurrentReport, <<>>)
    /\ UNCHANGED <<db, seq, clock, fsm, auth, inflight>>

\* process_photo from the end of the download: a failed download is logged
\* and nothing is added; the commit is outside the try
process_photo_downloaded(downloaded, k) ==
    /\ upload # NULL
    /\ LET s0 == Begin(db, seq, k)
           s1 == IF downloaded THEN InsertReportPhoto(s0, upload) ELSE s0
           s2 == Commit(s1)
       IN  /\ db' = s2.c
           /\ seq' = s2.sq
           /\ last' = Op("process_photo",
                         IF s2.err THEN "raised"
                         ELSE IF downloaded THEN "ok" ELSE "download_failed",
                         upload, <<>>)
    /\ upload' = NULL
    /\ UNCHANGED <<clock, fsm, auth, inflight>>

process_photos_done ==
    /\ fsm.state = "add_photos"
    /\ IF CurrentReport \notin DOMAIN db.reports
       THEN /\ fsm' = fsm
            /\ last' = Op("process_photos_done", "not_found", CurrentReport, <<>>)
       ELSE /\ fsm' = [fsm EXCEPT !.state = "edit_report"]
            /\ last' = Op("process_photos_done", "ok", CurrentReport, <<>>)
    /\ UNCHANGED <<db, seq, clock, upload, inflight, auth>>

process_add_comments ==
    /\ fsm' = [fsm EXCEPT !.state = "add_comments"]
    /\ last' = Op("process_add_comments", "ok", CurrentReport, <<>>)
    /\ UNCHANGED <<db, seq, clock, upload, inflight, auth>>

process_comments(text, k) ==
    /\ fsm.state = "add_comments"
    /\ IF CurrentReport \notin DOMAIN db.reports
       THEN /\ last' = Op("process_comments", "not_found", CurrentReport, <<>>)
            /\ UNCHANGED <<db, seq, fsm>>
       ELSE LET c == create_report(Begin(db, seq, k),
                                   [report_id |-> CurrentReport, comments |-> text])
            IN  /\ db' = c.s.c
                /\ seq' = c.s.sq
                /\ fsm' = IF c.ret = "raised" THEN fsm
                          ELSE [state |-> "edit_report",
                                data |-> update_data(fsm.data, [comments |-> text])]
                /\ last' = Op("process_comments", c.ret, CurrentReport,
                              <<Stmt("comments_before", db.reports[CurrentReport].comments)>>)
    /\ UNCHANGED <<clock, upload, inflight, auth>>

\* a Finalize that writes first and validates afterwards
process_save_report_write_first(k) ==
    LET data == fsm.data
        v == validate_report_data(data)
    IN  /\ clock <= MaxClock
        /\ CurrentReport \notin DOMAIN db.reports => seq.reports < MaxReports
        /\ LET sent == update_data(data, [status |-> "sent", sent_at |-> clock])
               c == create_report(Begin(db, seq, k), sent)
           IN  /\ db' = c.s.c
               /\ seq' = c.s.sq
               /\ fsm' = IF c.ret = "raised" \/ v # "ok" THEN fsm ELSE Cleared
               /\ last' = Op("process_save_report",
                             IF v # "ok" THEN v ELSE c.ret,
                             IF c.ret = "raised" THEN CurrentReport ELSE c.id, <<>>)
        /\ clock' = clock + 1
        /\ UNCHANGED <<upload, inflight, auth>>

\* Finalize: validate, then create_report with status "sent" and sent_at
process_save_report(k) ==
    LET data == fsm.data
        v == validate_report_data(data)
    IN  IF v # "ok"
        THEN /\ last' = Op("process_save_report", v, CurrentReport, <<>>)
             /\ UNCHANGED <<db, seq, clock, fsm, upload, inflight, auth>>
        ELSE /\ clock <= MaxClock
             /\ CurrentReport \notin DOMAIN db.reports => seq.reports < MaxReports
             /\ LET sent == update_data(data, [status |-> "sent", sent_at |-> clock])
                    c == create_report(Begin(db, seq, k), sent)
                IN  /\ db' = c.s.c
                    /\ seq' = c.s.sq
                    /\ fsm' = IF c.ret = "raised" THEN fsm ELSE Cleared
                    /\ last' = Op("process_save_report", c.ret,
                                  IF c.ret = "raised" THEN CurrentReport ELSE c.id, <<>>)
             /\ clock' = clock + 1
             /\ UNCHANGED <<upload, inflight, auth>>

process_cancel_report ==
    /\ fsm' = Cleared
    /\ last' = Op("process_cancel_report", "ok", CurrentReport, <<>>)
    /\ UNCHANGED <<db, seq, clock, upload, inflight, auth>>

(***************************************************************************)
(* Sending a report to a recipient (handlers/admin/report.py,              *)
(* process_select_report_recipient, which calls ReportService.send_report).*)
(***************************************************************************)
process_select_report_recipient(report_id, recipient_id, k) ==
    /\ IF report_id \notin DOMAIN db.reports
       THEN /\ last' = Op("send_report", "not_found", report_id, <<>>)
            /\ UNCHANGED <<db, seq, clock>>
       ELSE /\ clock <= MaxClock
            /\ LET r == send_report(Begin(db, seq, k), report_id, recipient_id, clock)
               IN  /\ db' = r.s.c
                   /\ seq' = r.s.sq
                   /\ last' = Op("send_report", r.ret, report_id, <<>>)
            /\ clock' = clock + 1
    /\ UNCHANGED <<fsm, upload, inflight, auth>>

(***************************************************************************)
(* The deletions (handlers/admin/report_delete.py, object.py, client.py).  *)
(* ord is the order in which the store returns the rows of reports.        *)
(***************************************************************************)
MaxCascadeFailAt == 9

\* the points at which the store can fail a handler that, left alone,
\* executes the statements of log
FailPoints(log, max) ==
    {NoFailure} \cup {k \in 0..max : k < Len(log)}

confirm_delete_report_run(report_id, k) ==
    delete_report(Begin(db, seq, k), report_id)

confirm_delete_report(report_id) ==
    /\ \E k \in FailPoints(confirm_delete_report_run(report_id, NoFailure).s.log,
                           MaxCascadeFailAt) :
          LET r == confirm_delete_report_run(report_id, k)
          IN  /\ db' = r.s.c
              /\ last' = Op("delete_report", r.ret, report_id, r.s.log)
    /\ UNCHANGED <<seq, clock, fsm, upload, inflight, auth>>

\* the handler first deletes the client_objects rows of the object itself
confirm_object_delete_run(object_id, ord, k) ==
    LET s1 == DeleteClientObjectsOfObject(Begin(db, seq, k), object_id)
        d == delete_object(s1, object_id, ord)
    IN  Returned(d.s, d.ret)

\* max: the last statement of the handler at which a failure is injected
confirm_object_delete_upto(object_id, ord, max) ==
    /\ \E k \in FailPoints(confirm_object_delete_run(object_id, ord, NoFailure).s.log,
                           max) :
          LET r == confirm_object_delete_run(object_id, ord, k)
          IN  /\ db' = r.s.c
              /\ last' = Op("delete_object", r.ret, object_id, r.s.log)
    /\ UNCHANGED <<seq, clock, fsm, upload, inflight, auth>>

confirm_object_delete(object_id, ord) ==
    confirm_object_delete_upto(object_id, ord, MaxCascadeFailAt)

process_confirm_delete_client_run(client_id, ord, k) ==
    delete_client(Begin(db, seq, k), client_id, ord)

process_confirm_delete_client_upto(client_id, ord, max) ==
    /\ IF client_id \notin DOMAIN db.clients
       THEN /\ db' = db
            /\ last' = Op("delete_client", "not_found", client_id, <<>>)
       ELSE \E k \in FailPoints(
                        process_confirm_delete_client_run(client_id, ord, NoFailure).s.log,
                        max) :
               LET r == process_confirm_delete_client_run(client_id, ord, k)
               IN  /\ db' = r.s.c
                   /\ last' = Op("delete_client", r.ret, client_id, r.s.log)
    /\ UNCHANGED <<seq, clock, fsm, upload, inflight, auth>>

process_confirm_delete_client(client_id, ord) ==
    process_confirm_delete_client_upto(client_id, ord, MaxCascadeFailAt)

(***************************************************************************)
(* Users, clients and the access-code login (handlers/admin/client.py,     *)
(* handlers/common.py, middlewares/auth.py).                               *)
(***************************************************************************)
MaxUsers == NumClients + 1

\* the telegram id of the administrator (settings.admin_ids)
AdminTelegram == NumTelegram + 1

\* codes a telegram user may type: the codes ever generated, and a wrong one
AccessCodes == 1..(MaxUsers + 1)

\* the users offered as recipients: those of clients, some of them gone
ClientUserIds == 2..MaxUsers

TelegramTakenUnenforced(d, tg, u) == FALSE

\* UNIQUE (telegram_id)
TelegramTaken(d, tg, u) ==
    tg # NULL /\ \E v \in DOMAIN d.users \ {u} : d.users[v].telegram_id = tg

\* INSERT INTO users
InsertUser(s, row) ==
    IF s.err THEN s
    ELSE LET id == s.sq.users + 1
             s1 == [s EXCEPT !.sq.users = id]
         IN  Execute(s1, Stmt("insert_user", id),
                     [s.t EXCEPT !.users = (id :> row) @@ @],
                     TelegramTaken(s.t, row.telegram_id, id))

\* INSERT INTO clients
InsertClient(s, user_id) ==
    IF s.err THEN s
    ELSE LET id == s.sq.clients + 1
             s1 == [s EXCEPT !.sq.clients = id]
         IN  Execute(s1, Stmt("insert_client", id),
                     [s.t EXCEPT !.clients = (id :> [user_id |-> user_id]) @@ @],
                     \/ user_id \notin DOMAIN s.t.users
                     \/ \E c \in DOMAIN s.t.clients : s.t.clients[c].user_id = user_id)

create_user(s, user_data) == Commit(InsertUser(s, user_data))

create_client(s, user_id) == Commit(InsertClient(s, user_id))

\* select(User).where(User.access_code == access_code), .first()
get_user_by_access_code(d, access_code) ==
    LET found == {u \in DOMAIN d.users : d.users[u].access_code = access_code}
    IN  IF found = {} THEN NULL ELSE CHOOSE u \in found : \A v \in found : u <= v

\* select(User).where(User.telegram_id == telegram_id), .first()
get_user_by_telegram_id(d, telegram_id) ==
    LET found == {u \in DOMAIN d.users : d.users[u].telegram_id = telegram_id}
    IN  IF found = {} THEN NULL ELSE CHOOSE u \in found : \A v \in found : u <= v

\* update(User).where(User.id == user_id).values(**user_data), commit
update_user(s, user_id, user_data) ==
    LET row == user_data @@ s.t.users[user_id]
    IN  Commit(Execute(s, Stmt("update_user", user_id),
                       [s.t EXCEPT !.users[user_id] = row],
                       TelegramTaken(s.t, row.telegram_id, user_id)))

\* AuthMiddleware, for an event of the administrator: the User row of
\* settings.admin_ids is created at the first event.  The lookup and the
\* insert are two statements, so another event may have created the row in
\* between: seen is what the lookup returned.
AuthMiddleware(seen, k) ==
    /\ seen \in {NULL, get_user_by_telegram_id(db, AdminTelegram)}
    /\ IF seen # NULL
       THEN /\ last' = Op("AuthMiddleware", "found", seen, <<>>)
            /\ UNCHANGED <<db, seq>>
       ELSE /\ seq.users < MaxUsers
            /\ LET s == create_user(Begin(db, seq, k),
                                    User(AdminTelegram, ADMIN_ROLE, NULL))
               IN  /\ db' = s.c
                   /\ seq' = s.sq
                   /\ last' = Op("AuthMiddleware",
                                 IF s.err THEN "raised" ELSE "created",
                                 s.sq.users, <<>>)
    /\ UNCHANGED <<clock, fsm, upload, inflight, auth>>

\* the handlers of the administrator run behind AuthMiddleware
AdminKnown == get_user_by_telegram_id(db, AdminTelegram) # NULL

\* the conversation that collects the client's name and organization
process_client_organization ==
    /\ AdminKnown
    /\ fsm' = [fsm EXCEPT !.state = "waiting_for_contact_info"]
    /\ last' = Op("process_client_organization", "ok", NULL, <<>>)
    /\ UNCHANGED <<db, seq, clock, upload, inflight, auth>>

\* the code generated is the user's own: generate_access_code() is random
process_client_contact_info(k) ==
    /\ AdminKnown
    /\ fsm.state = "waiting_for_contact_info"
    /\ seq.users < MaxUsers
    /\ LET access_code == seq.users + 1
           s1 == create_user(Begin(db, seq, k), User(NULL, CLIENT_ROLE, access_code))
           s2 == create_client(s1, s1.sq.users)
       IN  /\ db' = s2.c
           /\ seq' = s2.sq
           /\ fsm' = IF s2.err THEN fsm ELSE Cleared
           /\ last' = Op("process_client_contact_info",
                         IF s2.err THEN "raised" ELSE "ok", s1.sq.users, <<>>)
    /\ UNCHANGED <<clock, upload, inflight, auth>>

\* the chats a telegram user talks to the bot in: the state of a
\* conversation is kept per user and chat
Chats == 1..NumChats

\* /start of a telegram user: AuthMiddleware passes the user it finds
cmd_start(telegram_id, chat) ==
    /\ auth' = IF get_user_by_telegram_id(db, telegram_id) # NULL THEN auth
               ELSE [auth EXCEPT !.waiting = @ \cup {<<telegram_id, chat>>}]
    /\ last' = Op("cmd_start", "ok", telegram_id, <<>>)
    /\ UNCHANGED <<db, seq, clock, fsm, upload, inflight>>

process_access_code(telegram_id, chat, access_code, k) ==
    /\ <<telegram_id, chat>> \in auth.waiting
    /\ LET user == get_user_by_access_code(db, access_code)
           from == <<Stmt("telegram_id", telegram_id)>>
       IN  IF user = NULL
           THEN /\ last' = Op("process_access_code", "not_found", access_code, from)
                /\ UNCHANGED <<db, auth>>
           ELSE LET s == update_user(Begin(db, seq, k), user,
                                     [telegram_id |-> telegram_id])
                IN  /\ db' = s.c
                    /\ auth' = IF s.err THEN auth
                               ELSE [waiting |-> auth.waiting \ {<<telegram_id, chat>>},
                                     used |-> auth.used \cup {access_code}]
                    /\ last' = Op("process_access_code",
                                  IF s.err THEN "raised" ELSE "bound",
                                  access_code, from)
    /\ UNCHANGED <<seq, clock, fsm, upload, inflight>>

(***************************************************************************)
(* The crew of a report: ITR and workers (handlers/admin/report_edit.py).  *)
(***************************************************************************)
\* the ids a keyboard can carry: the ITR records and one id that is none
ITRCallbackIds == 1..(NumITR + 1)

process_add_itr ==
    /\ fsm' = IF db.itr = {} THEN fsm ELSE [fsm EXCEPT !.state = "add_itr"]
    /\ last' = Op("process_add_itr", "ok", CurrentReport, <<>>)
    /\ UNCHANGED <<db, seq, clock, upload, inflight, auth>>

process_itr_selection(itr_id, k) ==
    /\ fsm.state = "add_itr"
    /\ IF CurrentReport = NULL
       THEN /\ last' = Op("process_itr_selection", "not_found", CurrentReport, <<>>)
            /\ UNCHANGED <<db, seq, fsm>>
       ELSE IF itr_id \notin db.itr
       THEN /\ last' = Op("process_itr_selection", "itr_not_found", CurrentReport, <<>>)
            /\ UNCHANGED <<db, seq, fsm>>
       ELSE LET a == add_itr_to_report(Begin(db, seq, k), CurrentReport, {itr_id})
            IN  /\ db' = a.s.c
                /\ seq' = a.s.sq
                /\ fsm' = IF a.ret = "none" THEN fsm
                          ELSE [fsm EXCEPT !.state = "edit_report"]
                /\ last' = Op("process_itr_selection",
                              IF a.ret = "none" THEN "failed" ELSE "ok",
                              CurrentReport, <<Stmt("itr_ids", {itr_id})>>)
    /\ UNCHANGED <<clock, upload, inflight, auth>>

\* a call of ReportService.add_itr_to_report with any list of ids
call_add_itr_to_report(report_id, itr_ids, k) ==
    /\ LET a == add_itr_to_report(Begin(db, seq, k), report_id, itr_ids)
       IN  /\ db' = a.s.c
           /\ seq' = a.s.sq
           /\ last' = Op("add_itr_to_report", a.ret, report_id,
                         <<Stmt("itr_ids", itr_ids)>>)
    /\ UNCHANGED <<clock, fsm, upload, inflight, auth>>

process_add_workers ==
    /\ IF CurrentReport \notin DOMAIN db.reports
       THEN /\ fsm' = fsm
            /\ last' = Op("process_add_workers", "not_found", CurrentReport, <<>>)
       ELSE IF db.workers = {}
       THEN /\ fsm' = fsm
            /\ last' = Op("process_add_workers", "no_workers", CurrentReport, <<>>)
       ELSE /\ fsm' = [state |-> "add_workers",
                       data |-> update_data(fsm.data,
                          [workers_list |-> RowsOf(db.report_workers, CurrentReport)])]
            /\ last' = Op("process_add_workers", "ok", CurrentReport, <<>>)
    /\ UNCHANGED <<db, seq, clock, upload, inflight, auth>>

process_worker_selection(worker_id) ==
    /\ fsm.state = "add_workers"
    /\ IF CurrentReport \notin DOMAIN db.reports
       THEN /\ fsm' = fsm
            /\ last' = Op("process_worker_selection", "not_found", CurrentReport, <<>>)
       ELSE LET workers_list == Get(fsm.data, "workers_list", {})
                toggled == IF worker_id \in workers_list
                           THEN workers_list \ {worker_id}
                           ELSE workers_list \cup {worker_id}
            IN  /\ fsm' = [fsm EXCEPT !.data = update_data(@, [workers_list |-> toggled])]
                /\ last' = Op("process_worker_selection", "ok", CurrentReport, <<>>)
    /\ UNCHANGED <<db, seq, clock, upload, inflight, auth>>

process_workers_done(k) ==
    /\ fsm.state = "add_workers"
    /\ LET workers_list == Get(fsm.data, "workers_list", {})
       IN  IF CurrentReport \notin DOMAIN db.reports
           THEN /\ last' = Op("process_workers_done", "not_found", CurrentReport, <<>>)
                /\ UNCHANGED <<db, seq, fsm>>
           ELSE IF workers_list \cap db.workers = {}
           THEN /\ last' = Op("process_workers_done", "nothing_selected",
                              CurrentReport, <<>>)
                /\ UNCHANGED <<db, seq, fsm>>
           ELSE LET s == add_workers_to_report(Begin(db, seq, k), CurrentReport,
                                               workers_list)
                IN  /\ db' = s.c
                    /\ seq' = s.sq
                    /\ fsm' = IF s.err THEN fsm ELSE [fsm EXCEPT !.state = "edit_report"]
                    /\ last' = Op("process_workers_done",
                                  IF s.err THEN "raised" ELSE "ok", CurrentReport, s.log)
    /\ UNCHANGED <<clock, upload, inflight, auth>>

(***************************************************************************)
(* Objects and their clients (handlers/admin/object.py).                   *)
(***************************************************************************)
\* INSERT INTO objects: the sequence hands out the id
InsertObject(s) ==
    IF s.err THEN s
    ELSE LET id == s.sq.objects + 1
             s1 == [s EXCEPT !.sq.objects = id]
         IN  Execute(s1, Stmt("insert_object", id),
                     [s.t EXCEPT !.objects = @ \cup {id}], FALSE)

create_object(s) == Commit(InsertObject(s))

\* INSERT INTO client_objects (client_id, object_id) VALUES (c, o)
InsertClientObject(s, c, o) ==
    Execute(s, Stmt("insert_client_object", o),
            [s.t EXCEPT !.client_objects = BagAdd(@, <<c, o>>)],
            c \notin DOMAIN s.t.clients \/ o \notin s.t.objects)

process_object_add ==
    /\ fsm' = [fsm EXCEPT !.state = "waiting_for_name"]
    /\ last' = Op("process_object_add", "ok", NULL, <<>>)
    /\ UNCHANGED <<db, seq, clock, upload, inflight, auth>>

process_object_name(name) ==
    /\ fsm.state = "waiting_for_name"
    /\ fsm' = IF DOMAIN db.clients # {}
              THEN [state |-> "waiting_for_client_selection",
                    data |-> update_data(fsm.data, [object_name |-> name])]
              ELSE Cleared
    /\ last' = Op("process_object_name", "ok", NULL, <<>>)
    /\ UNCHANGED <<db, seq, clock, upload, inflight, auth>>

\* the new object is committed by create_object before the link is inserted
process_client_selection_callback(client_id, k) ==
    /\ IF "object_name" \notin DOMAIN fsm.data
       THEN /\ last' = Op("process_client_selection_callback", "no_name", NULL, <<>>)
            /\ UNCHANGED <<db, seq>>
       ELSE /\ seq.objects < NumObjects
            /\ LET s1 == create_object(Begin(db, seq, k))
                   s2 == IF client_id \in DOMAIN s1.t.clients
                         THEN Commit(InsertClientObject(s1, client_id, s1.sq.objects))
                         ELSE s1
               IN  /\ db' = s2.c
                   /\ seq' = s2.sq
                   /\ last' = Op("process_client_selection_callback",
                                 IF s2.err THEN "raised" ELSE "ok",
                                 s1.sq.objects, s2.log)
    /\ fsm' = Cleared
    /\ UNCHANGED <<clock, upload, inflight, auth>>

\* the links of the object are replaced with the link to the client chosen:
\* what the handler does to the store
process_select_object_client_store(object_id, client_id, k) ==
    /\ IF object_id \notin db.objects \/ client_id \notin DOMAIN db.clients
       THEN /\ last' = Op("process_select_object_client", "not_found", object_id, <<>>)
            /\ UNCHANGED <<db, seq>>
       ELSE LET s1 == DeleteClientObjectsOfObject(Begin(db, seq, k), object_id)
                s2 == Commit(InsertClientObject(s1, client_id, object_id))
            IN  /\ db' = s2.c
                /\ seq' = s2.sq
                /\ last' = Op("process_select_object_client",
                              IF s2.err THEN "raised" ELSE "ok", object_id, s2.log)
    /\ UNCHANGED <<clock, upload, inflight, auth>>

\* and to the conversation of the administrator: state.clear() once the
\* object and the client have been found
process_select_object_client(object_id, client_id, k) ==
    /\ process_select_object_client_store(object_id, client_id, k)
    /\ fsm' = IF object_id \notin db.objects \/ client_id \notin DOMAIN db.clients
              THEN fsm ELSE Cleared

(***************************************************************************)
(* Specifications.                                                         *)
(***************************************************************************)
NoOp == Op("init", "ok", NULL, <<>>)

NoAuth == [waiting |-> {}, used |-> {}]

\* no handler is in the middle of a transaction
NoSessions == <<>>

\* a store set up by the administrator: the administrator's own user, one
\* client with its user, one object linked to the client, the personnel
\* and equipment lists
BaseDb ==
    [EmptyDb EXCEPT
        !.users = (1 :> User(AdminTelegram, ADMIN_ROLE, NULL))
                  @@ (2 :> User(NULL, CLIENT_ROLE, 2)),
        !.clients = (1 :> [user_id |-> 2]),
        !.objects = {1},
        !.itr = ITRIds, !.workers = WorkerIds, !.equipment = EquipmentIds,
        !.client_objects = SetToBag({<<1, 1>>})]

BaseSeq ==
    [reports |-> 0, photos |-> 0, users |-> 2, clients |-> 1, objects |-> 1]

\* The life cycle of reports: creating, commenting, saving, sending, deleting.
\* Earlier reports were created and deleted; one id of the sequence is left.
Init ==
    /\ db = BaseDb
    /\ seq = [BaseSeq EXCEPT !.reports = MaxReports - 1]
    /\ clock = 1
    /\ fsm = Cleared
    /\ upload = NULL
    /\ auth = NoAuth
    /\ inflight = NoSessions
    /\ last = NoOp

Next ==
    \/ create_report_start
    \/ \E object_id \in ObjectIds : process_object_selection(object_id)
    \/ \E work_type \in WorkTypes : process_work_type_selection(work_type)
    \/ \E callback_data \in ReportTypeCallbacks, k \in FailAt :
          process_report_type_selection(callback_data, k)
    \/ \E report_id \in ReportIds : process_edit_report(report_id)
    \/ \E report_id \in ReportIds : process_export_report(report_id)
    \/ process_add_comments
    \/ \E text \in Texts, k \in FailAt : process_comments(text, k)
    \/ \E k \in FailAt : process_save_report(k)
    \/ process_cancel_report
    \/ \E report_id \in ReportIds, recipient_id \in ClientUserIds, k \in FailAt :
          process_select_report_recipient(report_id, recipient_id, k)
    \/ \E report_id \in ReportIds : confirm_delete_report(report_id)

Spec == Init /\ [][Next]_vars

\* The draft builder, from the moment process_report_type_selection has
\* created the first draft: equipment, photos, saving, deleting
DraftDb ==
    [BaseDb EXCEPT !.reports =
        (1 :> Report(1, "Blagoustrojstvo", "Blagoustrojstvo", NULLSTR, "draft",
                     NULL, NULL))]

DraftData ==
    [report_id |-> 1, object_id |-> 1, report_type |-> "Blagoustrojstvo",
     type |-> "morning", work_type |-> "Blagoustrojstvo", comments |-> "",
     itr_list |-> {}, workers_list |-> {}, equipment_list |-> {}]

InitBuilder ==
    /\ db = DraftDb
    /\ seq = [BaseSeq EXCEPT !.reports = 1]
    /\ clock = 1
    /\ fsm = [state |-> "edit_report", data |-> DraftData]
    /\ upload = NULL
    /\ auth = NoAuth
    /\ inflight = NoSessions
    /\ last = NoOp

NextBuilder ==
    \/ \E report_id \in ReportIds : process_edit_report(report_id)
    \/ process_add_equipment
    \/ \E equipment_id \in EquipmentIds : process_equipment_selection(equipment_id)
    \/ \E k \in FailAt : process_equipment_done(k)
    \/ process_add_photos
    \/ process_photo_received
    \/ \E downloaded \in BOOLEAN, k \in FailAt : process_photo_downloaded(downloaded, k)
    \/ process_photos_done
    \/ \E k \in FailAt : process_save_report(k)
    \/ \E report_id \in ReportIds : confirm_delete_report(report_id)

SpecBuilder == InitBuilder /\ [][NextBuilder]_vars

\* The cascades, from stores that hold reports with all their relations
ReportsOn(objs) ==
    [r \in DOMAIN objs |->
        Report(objs[r], "morning", "Blagoustrojstvo", NULLSTR, "draft", NULL, NULL)]

PopulatedDb(links, objs) ==
    [EmptyDb EXCEPT
        !.users = [u \in 1..MaxUsers |->
                     IF u = 1 THEN User(AdminTelegram, ADMIN_ROLE, NULL)
                     ELSE User(NULL, CLIENT_ROLE, u)],
        !.clients = [c \in ClientIds |-> [user_id |-> c + 1]],
        !.objects = ObjectIds,
        !.itr = ITRIds, !.workers = WorkerIds, !.equipment = EquipmentIds,
        !.client_objects = SetToBag(links),
        !.reports = ReportsOn(objs),
        !.report_photos = [p \in DOMAIN objs |-> p],
        !.report_itr = SetToBag({<<r, 1>> : r \in DOMAIN objs}),
        !.report_workers = SetToBag({<<r, 1>> : r \in DOMAIN objs}),
        !.report_equipment = SetToBag({<<r, 1>> : r \in DOMAIN objs})]

InitCascade ==
    /\ \E links \in SUBSET (ClientIds \X ObjectIds), objs \in [ReportIds -> ObjectIds] :
          /\ \A r1, r2 \in ReportIds : r1 <= r2 => objs[r1] <= objs[r2]
          /\ db = PopulatedDb(links, objs)
    /\ seq = [reports |-> MaxReports, photos |-> MaxReports, users |-> MaxUsers,
              clients |-> NumClients, objects |-> NumObjects]
    /\ clock = 1
    /\ fsm = Cleared
    /\ upload = NULL
    /\ auth = NoAuth
    /\ inflight = NoSessions
    /\ last = NoOp

NextCascade ==
    \/ \E report_id \in ReportIds : confirm_delete_report(report_id)
    \/ \E object_id \in ObjectIds, ord \in Orders(DOMAIN db.reports) :
          confirm_object_delete(object_id, ord)
    \/ \E client_id \in ClientIds, ord \in Orders(DOMAIN db.reports) :
          process_confirm_delete_client(client_id, ord)

SpecCascade == InitCascade /\ [][NextCascade]_vars

\* The login of clients with access codes.  The operations of the login
\* execute at most two statements and two commits.
MaxAuthFailAt == 3

AuthFailAt == {NoFailure} \cup (0..MaxAuthFailAt)

InitAuth ==
    /\ db = [EmptyDb EXCEPT !.objects = {1}]
    /\ seq = [reports |-> 0, photos |-> 0, users |-> 0, clients |-> 0, objects |-> 1]
    /\ clock = 1
    /\ fsm = Cleared
    /\ upload = NULL
    /\ auth = NoAuth
    /\ inflight = NoSessions
    /\ last = NoOp

NextAuth ==
    \/ process_client_organization
    \/ \E k \in AuthFailAt : process_client_contact_info(k)
    \/ \E seen \in {NULL} \cup (1..MaxUsers), k \in AuthFailAt : AuthMiddleware(seen, k)
    \/ \E telegram_id \in TelegramIds, chat \in Chats : cmd_start(telegram_id, chat)
    \/ \E telegram_id \in TelegramIds, chat \in Chats,
          access_code \in AccessCodes, k \in AuthFailAt :
          process_access_code(telegram_id, chat, access_code, k)
    \/ \E client_id \in ClientIds, ord \in Orders(DOMAIN db.reports) :
          process_confirm_delete_client(client_id, ord)

SpecAuth == InitAuth /\ [][NextAuth]_vars

\* The crew of the first draft: ITR and workers.  A crew operation executes
\* one statement and one commit
MaxCrewFailAt == 1

CrewFailAt == {NoFailure} \cup 0..MaxCrewFailAt

NextCrew ==
    \/ process_add_itr
    \/ \E itr_id \in ITRCallbackIds, k \in CrewFailAt : process_itr_selection(itr_id, k)
    \/ \E report_id \in ReportIds, itr_ids \in SUBSET ITRCallbackIds, k \in CrewFailAt :
          call_add_itr_to_report(report_id, itr_ids, k)
    \/ process_add_workers
    \/ \E worker_id \in WorkerIds : process_worker_selection(worker_id)
    \/ \E k \in CrewFailAt : process_workers_done(k)
    \/ \E report_id \in ReportIds : process_edit_report(report_id)

SpecCrew == InitBuilder /\ [][NextCrew]_vars

\* The join tables: the crew of the first draft, and the links between
\* objects and clients
NextLinks ==
    \/ process_add_itr
    \/ \E itr_id \in ITRCallbackIds, k \in CrewFailAt : process_itr_selection(itr_id, k)
    \/ process_add_workers
    \/ \E worker_id \in WorkerIds : process_worker_selection(worker_id)
    \/ \E k \in CrewFailAt : process_workers_done(k)
    \/ \E report_id \in ReportIds : process_edit_report(report_id)
    \/ process_object_add
    \/ \E name \in Texts : process_object_name(name)
    \/ \E client_id \in ClientIds, k \in FailAt :
          process_client_selection_callback(client_id, k)
    \/ \E object_id \in ObjectIds, client_id \in ClientIds, k \in FailAt :
          process_select_object_client(object_id, client_id, k)

SpecLinks == InitBuilder /\ [][NextLinks]_vars

(***************************************************************************)
(* Overlapping saves of one report.  Handlers are coroutines: while one    *)
(* awaits the store another runs.  Each has its own session and so its own *)
(* transaction; the store runs them READ COMMITTED: a statement sees what  *)
(* is committed when it runs and what its own transaction wrote, and a row *)
(* a transaction has deleted or updated is locked until it ends.  A        *)
(* session of inflight is [pc, data, del, ins, upd]: where create_report   *)
(* stands, its data, the rows it has deleted and inserted, the columns it  *)
(* has updated.                                                            *)
(***************************************************************************)
NumSessions == 2

Sessions == 1..NumSessions

Idle == [pc |-> "idle", data |-> EmptyData, del |-> EmptyBag, ins |-> EmptyBag,
         upd |-> EmptyData]

\* the report_equipment rows of report r in the committed store
EquipmentRowsOf(d, r) ==
    Restrict(d.report_equipment, {x \in DOMAIN d.report_equipment : x[1] = r})

\* another transaction holds locks on report_equipment rows of r
RowsLocked(p, r) ==
    \E q \in Sessions \ {p} :
       /\ inflight[q].pc \in {"deleted", "inserted", "flushed"}
       /\ inflight[q].data.report_id = r
       /\ inflight[q].del # EmptyBag

\* another transaction has updated the row of report r
ReportLocked(p, r) ==
    \E q \in Sessions \ {p} :
       inflight[q].pc = "flushed" /\ inflight[q].data.report_id = r

\* process_save_report up to create_report's get_report_by_id
save_report_begin(p, report_id, equipment_list) ==
    /\ inflight[p].pc = "idle"
    /\ report_id \in DOMAIN db.reports
    /\ clock <= MaxClock
    /\ LET data == update_data([DraftData EXCEPT !.report_id = report_id,
                                                  !.equipment_list = equipment_list],
                               [status |-> "sent", sent_at |-> clock])
       IN  inflight' = [inflight EXCEPT ![p] = [Idle EXCEPT !.pc = "begun",
                                                             !.data = data]]
    /\ clock' = clock + 1
    /\ last' = Op("create_report", "begun", report_id, <<>>)
    /\ UNCHANGED <<db, seq, fsm, upload, auth>>

\* delete(report_equipment).where(report_id == report.id): waits for the
\* locks, then deletes the committed rows
create_report_delete(p) ==
    /\ inflight[p].pc = "begun"
    /\ LET r == inflight[p].data.report_id
       IN  /\ ~RowsLocked(p, r)
           /\ inflight' = [inflight EXCEPT ![p].pc = "deleted",
                                           ![p].del = EquipmentRowsOf(db, r)]
           /\ last' = Op("create_report", "deleted", r, <<>>)
    /\ UNCHANGED <<db, seq, clock, fsm, upload, auth>>

\* the inserts of the loop over data['equipment_list']
create_report_insert(p) ==
    /\ inflight[p].pc = "deleted"
    /\ LET r == inflight[p].data.report_id
       IN  /\ inflight' = [inflight EXCEPT ![p].pc = "inserted",
                              ![p].ins = PairBag(r, inflight[p].data.equipment_list)]
           /\ last' = Op("create_report", "inserted", r, <<>>)
    /\ UNCHANGED <<db, seq, clock, fsm, upload, auth>>

\* session.flush(): the UPDATE of the report's row, which waits for its lock
create_report_flush(p) ==
    /\ inflight[p].pc = "inserted"
    /\ LET r == inflight[p].data.report_id
       IN  /\ ~ReportLocked(p, r)
           /\ inflight' = [inflight EXCEPT ![p].pc = "flushed",
                              ![p].upd = ReportAttributes(inflight[p].data)]
           /\ last' = Op("create_report", "flushed", r, <<>>)
    /\ UNCHANGED <<db, seq, clock, fsm, upload, auth>>

\* session.commit(): the transaction's writes become the committed store
create_report_commit(p) ==
    /\ inflight[p].pc = "flushed"
    /\ LET r == inflight[p].data.report_id
           t == inflight[p]
       IN  /\ db' = [db EXCEPT
                       !.report_equipment = (@ (-) t.del) (+) t.ins,
                       !.reports = IF r \in DOMAIN @
                                   THEN [@ EXCEPT ![r] = t.upd @@ @] ELSE @]
           /\ inflight' = [inflight EXCEPT ![p].pc = "done"]
           /\ last' = Op("process_save_report", "ok", r, <<>>)
    /\ UNCHANGED <<seq, clock, fsm, upload, auth>>

InitOverlap ==
    /\ \E equipment_list \in SUBSET EquipmentIds :
          db = [DraftDb EXCEPT !.report_equipment = PairBag(1, equipment_list)]
    /\ seq = [BaseSeq EXCEPT !.reports = 1]
    /\ clock = 1
    /\ fsm = Cleared
    /\ upload = NULL
    /\ auth = NoAuth
    /\ inflight = [p \in Sessions |-> Idle]
    /\ last = NoOp

NextOverlap ==
    \/ \E p \in Sessions, report_id \in ReportIds,
          equipment_list \in SUBSET EquipmentIds :
             save_report_begin(p, report_id, equipment_list)
    \/ \E p \in Sessions : create_report_delete(p)
    \/ \E p \in Sessions : create_report_insert(p)
    \/ \E p \in Sessions : create_report_flush(p)
    \/ \E p \in Sessions : create_report_commit(p)

SpecOverlap == InitOverlap /\ [][NextOverlap]_vars

\* Creating reports while objects and clients are deleted: both objects
\* exist, object 1 is linked to the client, and no report has been created
InitObjects ==
    /\ db = [BaseDb EXCEPT !.objects = ObjectIds]
    /\ seq = [BaseSeq EXCEPT !.objects = NumObjects]
    /\ clock = 1
    /\ fsm = Cleared
    /\ upload = NULL
    /\ auth = NoAuth
    /\ inflight = NoSessions
    /\ last = NoOp

NextObjects ==
    \/ create_report_start
    \/ \E object_id \in ObjectIds : process_object_selection(object_id)
    \/ \E work_type \in WorkTypes : process_work_type_selection(work_type)
    \/ \E callback_data \in ReportTypeCallbacks, k \in CrewFailAt :
          process_report_type_selection(callback_data, k)
    \/ \E k \in FailAt : process_save_report(k)
    \/ \E object_id \in ObjectIds, ord \in Orders(DOMAIN db.reports) :
          confirm_object_delete_upto(object_id, ord, MaxFailAt)
    \/ \E client_id \in ClientIds, ord \in Orders(DOMAIN db.reports) :
          process_confirm_delete_client_upto(client_id, ord, MaxFailAt)

SpecObjects == InitObjects /\ [][NextObjects]_vars

(***************************************************************************)
(* Queries by date range.                                                  *)
(***************************************************************************)
\* Report.date is a DateTime, default utcnow: points of time, in order
Dates == 0..MaxDate

QueryReportIds == 1..MaxQueryReports

QueryFailAt == {NoFailure, 0}

\* WHERE date >= start_date AND date <= end_date; BETWEEN is the same
\* pair of comparisons
DateBetween(d, start_date, end_date) ==
    {r \in DOMAIN d.reports :
        d.reports[r].date >= start_date /\ d.reports[r].date <= end_date}

\* ORDER BY date DESC: the rows in an order of non-increasing date; the
\* order of rows of one date is left to the database
OrderByDateDesc(d, S) ==
    {q \in Orders(S) :
        \A i, j \in DOMAIN q : i < j => d.reports[q[i]].date >= d.reports[q[j]].date}

\* crud.get_reports_by_date_range: the filtered rows ordered by date
\* descending; an exception of the query is logged and [] is returned
get_reports_by_date_range(start_date, end_date, k) ==
    /\ IF k = NoFailure
       THEN \E q \in OrderByDateDesc(db, DateBetween(db, start_date, end_date)) :
               last' = Op("get_reports_by_date_range", "ok",
                          <<start_date, end_date>>, q)
       ELSE last' = Op("get_reports_by_date_range", "error",
                       <<start_date, end_date>>, <<>>)
    /\ UNCHANGED <<db, seq, clock, fsm, upload, auth, inflight>>

\* utils.report_utils.get_reports_by_date_range without client_id and
\* object_id: the filtered rows of a SELECT that has no ORDER BY, so in
\* whatever order the database yields them; an exception propagates
report_utils_get_reports_by_date_range(start_date, end_date, k) ==
    /\ IF k = NoFailure
       THEN \E q \in Orders(DateBetween(db, start_date, end_date)) :
               last' = Op("report_utils.get_reports_by_date_range", "ok",
                          <<start_date, end_date>>, q)
       ELSE last' = Op("report_utils.get_reports_by_date_range", "raised",
                       <<start_date, end_date>>, <<>>)
    /\ UNCHANGED <<db, seq, clock, fsm, upload, auth, inflight>>

\* A store whose reports were created one after the other, each dated by
\* the clock at its creation, some of them deleted since
DatedReports ==
    {f \in UNION {[S -> Dates] : S \in SUBSET QueryReportIds} :
        \A r1, r2 \in DOMAIN f : r1 < r2 => f[r1] <= f[r2]}

DatedReport(date) ==
    Report(1, "Blagoustrojstvo", "Blagoustrojstvo", NULLSTR, "draft", NULL, NULL)
        @@ [date |-> date]

InitQuery ==
    /\ \E f \in DatedReports :
          db = [BaseDb EXCEPT !.reports = [r \in DOMAIN f |-> DatedReport(f[r])]]
    /\ seq = [BaseSeq EXCEPT !.reports = MaxQueryReports]
    /\ clock = 1
    /\ fsm = Cleared
    /\ upload = NULL
    /\ auth = NoAuth
    /\ inflight = NoSessions
    /\ last = NoOp

NextQuery ==
    \/ \E start_date \in Dates, end_date \in Dates, k \in QueryFailAt :
          get_reports_by_date_range(start_date, end_date, k)
    \/ \E start_date \in Dates, end_date \in Dates, k \in QueryFailAt :
          report_utils_get_reports_by_date_range(start_date, end_date, k)

SpecQuery == InitQuery /\ [][NextQuery]_vars

(***************************************************************************)
(* Today's reports (crud.get_today_reports).                               *)
(***************************************************************************)
\* datetime.replace(hour=0, minute=0, second=0, microsecond=0): the first
\* instant of the day of now, a day being DayLength readings of the clock
Midnight(now) == now - (now % DayLength)

\* today.replace(hour=23, minute=59, second=59, microsecond=999999)
EndOfDay(today) == today + (DayLength - 1)

\* the row create_base_report inserts: date is left to its column default,
\* datetime.utcnow
TodayReport(object_id, now) ==
    Report(object_id, "Blagoustrojstvo", "Blagoustrojstvo", NULLSTR, "draft",
           NULL, NULL) @@ [date |-> now]

\* create_base_report for an object, dated by the clock; every reading of
\* the clock is later than the one before
create_base_report_today(object_id) ==
    /\ clock < MaxNow
    /\ seq.reports < MaxQueryReports
    /\ object_id \in db.objects
    /\ db' = [db EXCEPT !.reports =
                 @ @@ ((seq.reports + 1) :> TodayReport(object_id, clock))]
    /\ seq' = [seq EXCEPT !.reports = @ + 1]
    /\ clock' = clock + 1
    /\ last' = Op("create_base_report", "ok", seq.reports + 1, <<>>)
    /\ UNCHANGED <<fsm, upload, auth, inflight>>

\* time passes between two events
time_passes(n) ==
    /\ clock + n <= MaxNow
    /\ clock' = clock + n
    /\ last' = Op("time_passes", "ok", NULL, <<>>)
    /\ UNCHANGED <<db, seq, fsm, upload, auth, inflight>>

TodayBetweenAnyObject(d, now, object_id) ==
    {r \in DOMAIN d.reports :
        /\ d.reports[r].date >= Midnight(now)
        /\ d.reports[r].date <= EndOfDay(Midnight(now))}

\* WHERE date BETWEEN today AND end_of_day, and, if object_id is given,
\* AND object_id = :object_id
TodayBetween(d, now, object_id) ==
    {r \in DOMAIN d.reports :
        /\ d.reports[r].date >= Midnight(now)
        /\ d.reports[r].date <= EndOfDay(Midnight(now))
        /\ object_id # NULL => d.reports[r].object_id = object_id}

\* get_today_reports(session, object_id): the rows in the order the
\* database yields them; last.id is <<now, object_id>>
get_today_reports(object_id) ==
    /\ clock < MaxNow
    /\ \E q \in Orders(TodayBetween(db, clock, object_id)) :
          last' = Op("get_today_reports", "ok", <<clock, object_id>>, q)
    /\ clock' = clock + 1
    /\ UNCHANGED <<db, seq, fsm, upload, auth, inflight>>

\* both objects exist and no report has been created
InitToday ==
    /\ db = [BaseDb EXCEPT !.objects = ObjectIds]
    /\ seq = [BaseSeq EXCEPT !.objects = NumObjects]
    /\ clock = 1
    /\ fsm = Cleared
    /\ upload = NULL
    /\ auth = NoAuth
    /\ inflight = NoSessions
    /\ last = NoOp

NextToday ==
    \/ \E object_id \in ObjectIds : create_base_report_today(object_id)
    \/ \E n \in 1..DayLength : time_passes(n)
    \/ \E object_id \in ObjectIds \cup {NULL} : get_today_reports(object_id)

SpecToday == InitToday /\ [][NextToday]_vars

(***************************************************************************)
(* The clients' handlers (handlers/client.py).  In SpecClient fsm holds    *)
(* one conversation for each telegram user, as the FSM storage does; the   *)
(* conversation of the administrator is not kept there.                    *)
(***************************************************************************)
\* AuthMiddleware and client_required let the event through: the sender is
\* a User with the role client
SenderIsClient(telegram_id) ==
    LET u == get_user_by_telegram_id(db, telegram_id)
    IN  u # NULL /\ db.users[u].role = CLIENT_ROLE

\* select(Client).where(Client.user_id == user_id), .first()
get_client_by_user_id(d, user_id) ==
    LET found == {c \in DOMAIN d.clients : d.clients[c].user_id = user_id}
    IN  IF found = {} THEN NULL ELSE CHOOSE c \in found : \A v \in found : c <= v

ClientObjectsAnyClient(d, c) == d.objects

\* client.objects: the objects joined to the client through client_objects
ClientObjects(d, c) ==
    {o \in d.objects : <<c, o>> \in DOMAIN d.client_objects}

\* the callback filter_object
process_filter_object(telegram_id, k) ==
    /\ SenderIsClient(telegram_id)
    /\ LET user == get_user_by_telegram_id(db, telegram_id)
           client == get_client_by_user_id(db, user)
       IN  IF k # NoFailure
           THEN /\ last' = Op("process_filter_object", "raised", telegram_id, <<>>)
                /\ fsm' = fsm
           ELSE IF client = NULL \/ ClientObjects(db, client) = {}
           THEN /\ last' = Op("process_filter_object", "no_objects", telegram_id, <<>>)
                /\ fsm' = fsm
           ELSE \E objects \in Orders(ClientObjects(db, client)) :
                   /\ fsm' = [fsm EXCEPT ![telegram_id] =
                                 [state |-> "waiting_for_object",
                                  data |-> update_data(@.data, [objects |-> objects])]]
                   /\ last' = Op("process_filter_object", "ok", telegram_id, objects)
    /\ UNCHANGED <<db, seq, clock, upload, auth, inflight>>

\* select(Report).where(Report.object_id == object_id)
get_reports_by_object(d, object_id) ==
    {r \in DOMAIN d.reports : d.reports[r].object_id = object_id}

\* the reports of the object with the type asked for.  The stores of
\* SpecClient carry no date: every report is of the day asked for
ReportsOfType(d, object_id, report_type) ==
    {r \in get_reports_by_object(d, object_id) : d.reports[r].type = report_type}

\* the callback history_type_<object_id>_<date>_<type>: the reports of the
\* object are listed with their time and work type
process_history_type(telegram_id, object_id, report_type) ==
    /\ SenderIsClient(telegram_id)
    /\ LET reports == ReportsOfType(db, object_id, report_type)
       IN  last' = IF object_id \notin db.objects
                   THEN Op("process_history_type", "object_not_found", telegram_id, <<>>)
                   ELSE IF reports = {}
                   THEN Op("process_history_type", "no_reports", telegram_id, <<>>)
                   ELSE Op("process_history_type", "ok", telegram_id, SetToSeq(reports))
    /\ UNCHANGED <<db, seq, clock, fsm, upload, auth, inflight>>

\* the callback view_report_<report_id>: the report is shown
process_view_report(telegram_id, report_id) ==
    /\ SenderIsClient(telegram_id)
    /\ last' = IF report_id \notin DOMAIN db.reports
               THEN Op("process_view_report", "not_found", telegram_id, <<>>)
               ELSE Op("process_view_report", "ok", telegram_id, <<report_id>>)
    /\ UNCHANGED <<db, seq, clock, fsm, upload, auth, inflight>>

\* the callback client_export_pdf_<object_id>_<date>_<type>: the reports
\* are sent as a document unless the object is not one of the client's;
\* exported is whether the file could be written and sent
process_client_export_pdf(telegram_id, object_id, report_type, exported) ==
    /\ SenderIsClient(telegram_id)
    /\ LET reports == ReportsOfType(db, object_id, report_type)
           user == get_user_by_telegram_id(db, telegram_id)
           client == get_client_by_user_id(db, user)
       IN  last' = IF reports = {}
                   THEN Op("process_client_export_pdf", "no_reports", telegram_id, <<>>)
                   ELSE IF client = NULL \/ object_id \notin ClientObjects(db, client)
                   THEN Op("process_client_export_pdf", "no_access", telegram_id, <<>>)
                   ELSE IF ~exported
                   THEN Op("process_client_export_pdf", "raised", telegram_id, <<>>)
                   ELSE Op("process_client_export_pdf", "ok", telegram_id,
                           SetToSeq(reports))
    /\ UNCHANGED <<db, seq, clock, fsm, upload, auth, inflight>>

\* every client has logged in: the user of client c has the telegram id c
ClientDb(links, objs) ==
    [PopulatedDb(links, objs) EXCEPT
        !.users = [u \in 1..MaxUsers |->
                     IF u = 1 THEN User(AdminTelegram, ADMIN_ROLE, NULL)
                     ELSE User(u - 1, CLIENT_ROLE, u)]]

InitClient ==
    /\ \E links \in SUBSET (ClientIds \X ObjectIds), objs \in [ReportIds -> ObjectIds] :
          /\ \A r1, r2 \in ReportIds : r1 <= r2 => objs[r1] <= objs[r2]
          /\ db = ClientDb(links, objs)
    /\ seq = [reports |-> MaxReports, photos |-> MaxReports, users |-> MaxUsers,
              clients |-> NumClients, objects |-> NumObjects]
    /\ clock = 1
    /\ fsm = [t \in TelegramIds |-> Cleared]
    /\ upload = NULL
    /\ auth = NoAuth
    /\ inflight = NoSessions
    /\ last = NoOp

NextClient ==
    \/ \E telegram_id \in TelegramIds, k \in QueryFailAt :
          process_filter_object(telegram_id, k)
    \/ \E object_id \in ObjectIds, client_id \in ClientIds, k \in CrewFailAt :
          process_select_object_client_store(object_id, client_id, k) /\ fsm' = fsm
    \/ \E client_id \in ClientIds, ord \in Orders(DOMAIN db.reports) :
          process_confirm_delete_client_upto(client_id, ord, MaxCrewFailAt)
    \/ \E telegram_id \in TelegramIds, object_id \in ObjectIds,
          report_type \in valid_types :
          process_history_type(telegram_id, object_id, report_type)
    \/ \E telegram_id \in TelegramIds, report_id \in ReportIds :
          process_view_report(telegram_id, report_id)
    \/ \E telegram_id \in TelegramIds, object_id \in ObjectIds,
          report_type \in valid_types, exported \in BOOLEAN :
          process_client_export_pdf(telegram_id, object_id, report_type, exported)

SpecClient == InitClient /\ [][NextClient]_vars

(***************************************************************************)
(* Personnel and equipment management (handlers/admin/personnel.py,        *)
(* handlers/admin/equipment.py): deleting an ITR, a worker, a piece of     *)
(* equipment.  report_itr, report_workers and report_equipment reference   *)
(* them with foreign keys that have no ON DELETE rule (models.py), so the  *)
(* store refuses to delete a record that a join row references.            *)
(***************************************************************************)
RefsItr(d, i) == \E x \in DOMAIN d.report_itr : x[2] = i

RefsWorker(d, w) == \E x \in DOMAIN d.report_workers : x[2] = w

RefsEquipment(d, e) == \E x \in DOMAIN d.report_equipment : x[2] = e

\* delete(ITR).where(ITR.id == i) on a store that does not check the key
DeleteItrRowUnchecked(s, i) ==
    Execute(s, Stmt("delete_itr", i), [s.t EXCEPT !.itr = @ \ {i}], FALSE)

\* delete(ITR).where(ITR.id == i)
DeleteItrRow(s, i) ==
    Execute(s, Stmt("delete_itr", i), [s.t EXCEPT !.itr = @ \ {i}], RefsItr(s.t, i))

\* delete(Worker).where(Worker.id == w)
DeleteWorkerRow(s, w) ==
    Execute(s, Stmt("delete_worker", w), [s.t EXCEPT !.workers = @ \ {w}],
            RefsWorker(s.t, w))

\* delete(Equipment).where(Equipment.id == e)
DeleteEquipmentRow(s, e) ==
    Execute(s, Stmt("delete_equipment", e), [s.t EXCEPT !.equipment = @ \ {e}],
            RefsEquipment(s.t, e))

\* crud.delete_itr, delete_worker, delete_equipment: the statement, then a
\* commit; an exception leaves the function
delete_itr(s, itr_id) == Commit(DeleteItrRow(s, itr_id))

delete_worker(s, worker_id) == Commit(DeleteWorkerRow(s, worker_id))

delete_equipment(s, equipment_id) == Commit(DeleteEquipmentRow(s, equipment_id))

\* the record the personnel conversation is about
CurrentPersonnel == Get(fsm.data, "personnel_id", NULL)

process_edit_itr(itr_id) ==
    /\ IF itr_id \notin db.itr
       THEN /\ fsm' = fsm
            /\ last' = Op("process_edit_itr", "not_found", itr_id, <<>>)
       ELSE /\ fsm' = [fsm EXCEPT !.data = update_data(@, [personnel_id |-> itr_id])]
            /\ last' = Op("process_edit_itr", "ok", itr_id, <<>>)
    /\ UNCHANGED <<db, seq, clock, upload, inflight, auth>>

process_delete_itr(k) ==
    /\ IF CurrentPersonnel = NULL
       THEN /\ last' = Op("process_delete_itr", "no_id", NULL, <<>>)
            /\ UNCHANGED <<db, seq>>
       ELSE IF CurrentPersonnel \notin db.itr
       THEN /\ last' = Op("process_delete_itr", "not_found", CurrentPersonnel, <<>>)
            /\ UNCHANGED <<db, seq>>
       ELSE LET s == delete_itr(Begin(db, seq, k), CurrentPersonnel)
            IN  /\ db' = s.c
                /\ seq' = s.sq
                /\ last' = Op("process_delete_itr", IF s.err THEN "raised" ELSE "ok",
                              CurrentPersonnel, s.log)
    /\ UNCHANGED <<clock, fsm, upload, inflight, auth>>

process_edit_worker(worker_id) ==
    /\ IF worker_id \notin db.workers
       THEN /\ fsm' = fsm
            /\ last' = Op("process_edit_worker", "not_found", worker_id, <<>>)
       ELSE /\ fsm' = [fsm EXCEPT !.data =
                          update_data(@, [personnel_id |-> worker_id,
                                          personnel_type |-> "worker"])]
            /\ last' = Op("process_edit_worker", "ok", worker_id, <<>>)
    /\ UNCHANGED <<db, seq, clock, upload, inflight, auth>>

process_delete_worker(k) ==
    /\ IF CurrentPersonnel = NULL
       THEN /\ last' = Op("process_delete_worker", "no_id", NULL, <<>>)
            /\ UNCHANGED <<db, seq>>
       ELSE IF CurrentPersonnel \notin db.workers
       THEN /\ last' = Op("process_delete_worker", "not_found", CurrentPersonnel, <<>>)
            /\ UNCHANGED <<db, seq>>
       ELSE LET s == delete_worker(Begin(db, seq, k), CurrentPersonnel)
            IN  /\ db' = s.c
                /\ seq' = s.sq
                /\ last' = Op("process_delete_worker",
                              IF s.err THEN "raised" ELSE "ok", CurrentPersonnel, s.log)
    /\ UNCHANGED <<clock, fsm, upload, inflight, auth>>

\* no look-up first: the statement deletes nothing when the id is not there
confirm_equipment_delete(equipment_id, k) ==
    /\ LET s == delete_equipment(Begin(db, seq, k), equipment_id)
       IN  /\ db' = s.c
           /\ seq' = s.sq
           /\ last' = Op("confirm_equipment_delete", IF s.err THEN "raised" ELSE "ok",
                         equipment_id, s.log)
    /\ UNCHANGED <<clock, fsm, upload, inflight, auth>>

\* The first draft's crew and equipment, and the administrator deleting
\* personnel and equipment meanwhile.  The lists hold two ITR, one worker
\* and one piece of equipment
PersonnelWorkerIds == 1..NumPersonnelWorkers

PersonnelEquipmentIds == 1..NumPersonnelEquipment

InitPersonnel ==
    /\ db = [DraftDb EXCEPT !.workers = PersonnelWorkerIds,
                            !.equipment = PersonnelEquipmentIds]
    /\ seq = [BaseSeq EXCEPT !.reports = 1]
    /\ clock = 1
    /\ fsm = [state |-> "edit_report", data |-> DraftData]
    /\ upload = NULL
    /\ auth = NoAuth
    /\ inflight = NoSessions
    /\ last = NoOp

NextPersonnel ==
    \/ process_add_itr
    \/ \E itr_id \in ITRIds, k \in CrewFailAt : process_itr_selection(itr_id, k)
    \/ process_add_workers
    \/ \E worker_id \in PersonnelWorkerIds : process_worker_selection(worker_id)
    \/ \E k \in CrewFailAt : process_workers_done(k)
    \/ process_add_equipment
    \/ \E equipment_id \in PersonnelEquipmentIds :
          process_equipment_selection(equipment_id)
    \/ \E k \in CrewFailAt : process_equipment_done(k)
    \/ \E itr_id \in ITRIds : process_edit_itr(itr_id)
    \/ \E k \in CrewFailAt : process_delete_itr(k)
    \/ \E worker_id \in PersonnelWorkerIds : process_edit_worker(worker_id)
    \/ \E k \in CrewFailAt : process_delete_worker(k)
    \/ \E equipment_id \in PersonnelEquipmentIds, k \in CrewFailAt :
          confirm_equipment_delete(equipment_id, k)

SpecPersonnel == InitPersonnel /\ [][NextPersonnel]_vars

(***************************************************************************)
(* The middlewares in front of the admin routers (middlewares/auth.py,     *)
(* middlewares/role_check.py).  AuthMiddleware is installed on the         *)
(* dispatcher's message and callback_query observers (app.py,              *)
(* middlewares/__init__.py) and every registered admin router installs     *)
(* admin_required() on both of its observers, so an event that matches a   *)
(* handler of an admin router passes AuthMiddleware, then RoleMiddleware,  *)
(* then the handler.                                                       *)
(***************************************************************************)
\* settings.admin_ids
admin_ids == {AdminTelegram}

\* the telegram users that send events
Senders == TelegramIds \cup admin_ids

\* /start, another message, a callback query
EventKinds == {"start", "message", "callback"}

\* AuthMiddleware.__call__: whether the next handler is called, and the
\* User put in data["user"] (NULL: none).  waiting is whether the sender's
\* conversation is in AuthStates.waiting_for_access_code; seen is what the
\* first look-up returned
AuthMiddlewareCall(s, telegram_id, kind, waiting, seen) ==
    IF telegram_id \in admin_ids
    THEN IF seen # NULL THEN [s |-> s, called |-> TRUE, user |-> seen]
         ELSE LET s1 == create_user(s, User(telegram_id, ADMIN_ROLE, NULL))
              IN  IF s1.err THEN [s |-> Rollback(s1), called |-> FALSE, user |-> NULL]
                  ELSE [s |-> s1, called |-> TRUE, user |-> s1.sq.users]
    ELSE LET user == get_user_by_telegram_id(s.t, telegram_id)
         IN  IF user # NULL /\ s.t.users[user].role = CLIENT_ROLE
             THEN [s |-> s, called |-> TRUE, user |-> user]
             ELSE IF kind = "start" \/ waiting
             THEN [s |-> s, called |-> TRUE, user |-> NULL]
             ELSE [s |-> s, called |-> user # NULL, user |-> user]

\* RoleMiddleware.__call__: whether the handler is called
RoleMiddleware(allowed_roles, d, user) ==
    IF allowed_roles = {} THEN TRUE
    ELSE IF user = NULL THEN FALSE
    ELSE d.users[user].role \in allowed_roles

\* a router that admits every authorised role
admin_required_any_role(d, user) == RoleMiddleware({ADMIN_ROLE, CLIENT_ROLE}, d, user)

admin_required(d, user) == RoleMiddleware({ADMIN_ROLE}, d, user)

\* an event of telegram_id that matches a handler of an admin router
admin_router_event(telegram_id, chat, kind, seen, k) ==
    /\ seen \in {NULL, get_user_by_telegram_id(db, telegram_id)}
    /\ telegram_id \notin admin_ids => seen = get_user_by_telegram_id(db, telegram_id)
    /\ (telegram_id \in admin_ids /\ seen = NULL) => seq.users < MaxUsers
    /\ LET a == AuthMiddlewareCall(Begin(db, seq, k), telegram_id, kind,
                                   <<telegram_id, chat>> \in auth.waiting, seen)
           ret == IF ~a.called THEN "blocked"
                  ELSE IF admin_required(a.s.c, a.user) THEN "executed"
                  ELSE "refused"
       IN  /\ db' = a.s.c
           /\ seq' = a.s.sq
           /\ last' = Op("admin_router_event", ret, telegram_id,
                         <<Stmt(kind, a.user)>>)
    /\ UNCHANGED <<clock, fsm, upload, inflight, auth>>

\* The login of clients, and events of every telegram user that match
\* handlers of the admin routers
NextRoles ==
    \/ process_client_organization
    \/ \E k \in AuthFailAt : process_client_contact_info(k)
    \/ \E telegram_id \in TelegramIds, chat \in Chats : cmd_start(telegram_id, chat)
    \/ \E telegram_id \in TelegramIds, chat \in Chats,
          access_code \in AccessCodes, k \in AuthFailAt :
          process_access_code(telegram_id, chat, access_code, k)
    \/ \E telegram_id \in Senders, chat \in Chats, kind \in EventKinds,
          seen \in {NULL} \cup (1..MaxUsers), k \in AuthFailAt :
          admin_router_event(telegram_id, chat, kind, seen, k)

SpecRoles == InitAuth /\ [][NextRoles]_vars

(***************************************************************************)
(* Properties of the cascades (SpecCascade).                               *)
(***************************************************************************)
CascadeOps == {"delete_object", "delete_client", "delete_report"}

LogHas(log, op) == \E i \in DOMAIN log : log[i].op = op

\* C2: cascade atomicity.  When DeleteObject, DeleteClient or DeleteReport
\* raises, every row that existed before the call still exists: the store
\* is as it was.
CascadeAtomicity ==
    [][(last'.op \in CascadeOps /\ last'.ret = "raised") => db' = db]_vars

\* C3: cascade completeness.  After DeleteObject(o) has returned true, every
\* Report that belonged to o is gone and no row of report_itr,
\* report_workers, report_equipment or report_photos references its id.
CascadeCompleteness ==
    [][(last'.op = "delete_object" /\ last'.ret = "true") =>
          \A r \in DOMAIN db.reports :
             db.reports[r].object_id = last'.id =>
                r \notin DOMAIN db'.reports /\ ~RefsReport(db', r)]_vars

\* an object with two reports, each with all its relations, has been deleted
CascadeCompletenessWitness ==
    /\ last.op = "delete_object"
    /\ last.ret = "true"
    /\ Cardinality({i \in DOMAIN last.log : last.log[i].op = "delete_report"}) = 2
    /\ Cardinality({i \in DOMAIN last.log : last.log[i].op = "delete_report_photos"}) = 2

RelationStmts ==
    {"delete_report_equipment", "delete_report_itr", "delete_report_workers",
     "delete_report_photos"}

\* C10: the order of a cascade.  The join rows and the photos of a Report are
\* deleted before the Report row, and every Report of an Object is deleted
\* before the Object row.
CascadeOrder ==
    [][last'.op \in CascadeOps =>
          \A i \in DOMAIN last'.log :
             /\ last'.log[i].op = "delete_report" =>
                   \A op \in RelationStmts :
                      \E j \in 1..(i - 1) : last'.log[j] = Stmt(op, last'.log[i].id)
             /\ last'.log[i].op = "delete_object" =>
                   \A r \in DOMAIN db.reports :
                      db.reports[r].object_id = last'.log[i].id =>
                         \E j \in 1..(i - 1) : last'.log[j] = Stmt("delete_report", r)]_vars

\* a client has been deleted together with a report of one of its objects
CascadeOrderWitness ==
    /\ last.op = "delete_client"
    /\ last.ret = "true"
    /\ LogHas(last.log, "delete_report")
    /\ LogHas(last.log, "delete_client")

(***************************************************************************)
(* The life cycle of a report.                                             *)
(***************************************************************************)
\* C1: the status of a report only ever changes from draft to sent: whatever
\* the operation, a report whose status changes had status draft and has
\* status sent, so a sent report never becomes a draft again.
StatusOnlyDraftToSent ==
    [][\A r \in DOMAIN db.reports \cap DOMAIN db'.reports :
          db'.reports[r].status # db.reports[r].status =>
             db.reports[r].status = "draft" /\ db'.reports[r].status = "sent"]_vars

\* comments were written to a report that was already sent
StatusOnlyDraftToSentWitness ==
    /\ last.op = "process_comments" /\ last.ret = "ok"
    /\ last.id \in DOMAIN db.reports
    /\ db.reports[last.id].status = "sent"
    /\ db.reports[last.id].comments = "t1"

\* C4: a report whose status is sent has both sent_at and recipient_id set.
SentHasStampAndRecipient ==
    \A r \in DOMAIN db.reports :
       db.reports[r].status = "sent" =>
          db.reports[r].sent_at # NULL /\ db.reports[r].recipient_id # NULL

\* C6: Finalize of data without report_type ends in a validation error and
\* leaves every report as it was, the conversation's draft included.
FinalizeNeedsReportType ==
    [][(last'.op = "process_save_report" /\ "report_type" \notin DOMAIN fsm.data) =>
          last'.ret \in ValidationErrors /\ db'.reports = db.reports]_vars

\* Finalize was refused for a draft whose data has no report_type
FinalizeNeedsReportTypeWitness ==
    /\ last.op = "process_save_report" /\ last.ret = "missing_field"
    /\ "report_type" \notin DOMAIN fsm.data
    /\ last.id \in DOMAIN db.reports
    /\ db.reports[last.id].status = "draft"

\* C7: a Finalize that ends in a validation error changes nothing: the
\* stored reports, their ITR, workers, equipment, photos and comments, and
\* the data accumulated in the conversation are as they were before.
FinalizeValidationFrame ==
    [][(last'.op = "process_save_report" /\ last'.ret \in ValidationErrors) =>
          db' = db /\ fsm' = fsm]_vars

\* Finalize was refused for a draft that has comments
FinalizeValidationFrameWitness ==
    /\ last.op = "process_save_report" /\ last.ret \in ValidationErrors
    /\ last.id \in DOMAIN db.reports
    /\ db.reports[last.id].status = "draft"
    /\ db.reports[last.id].comments = "t1"
    /\ Get(fsm.data, "comments", "") = "t1"

NoOrphanRelations ==
    /\ \A x \in DOMAIN db.report_itr : x[1] \in DOMAIN db.reports
    /\ \A x \in DOMAIN db.report_workers : x[1] \in DOMAIN db.reports
    /\ \A x \in DOMAIN db.report_equipment : x[1] \in DOMAIN db.reports
    /\ \A p \in DOMAIN db.report_photos : db.report_photos[p] \in DOMAIN db.reports

\* a report was deleted while a photo for it was being downloaded
NoOrphanRelationsWitness ==
    /\ last.op = "delete_report" /\ last.ret = "true"
    /\ upload = last.id
    /\ last.id \notin DOMAIN db.reports

(***************************************************************************)
(* Access codes.                                                           *)
(***************************************************************************)
\* C5: an access code is consumed by its first use: an attempt to
\* authenticate with a code that has already bound a telegram_id finds no
\* user.
AccessCodeUsedOnce ==
    [][(last'.op = "process_access_code" /\ last'.id \in auth.used) =>
          last'.ret = "not_found"]_vars

\* C11: sent_at and recipient_id are written at the draft -> sent transition
\* only: a save of a report that is already sent leaves both as they were.
SentStampWrittenOnce ==
    [][(last'.op = "process_save_report" /\ last'.id \in DOMAIN db.reports
          /\ db.reports[last'.id].status = "sent") =>
             /\ last'.id \in DOMAIN db'.reports
             /\ db'.reports[last'.id].sent_at = db.reports[last'.id].sent_at
             /\ db'.reports[last'.id].recipient_id = db.reports[last'.id].recipient_id]_vars

ITRReplaced ==
    [][(last'.op \in {"add_itr_to_report", "process_itr_selection"}
          /\ last'.ret \in {"report", "ok"}) =>
             /\ RowsOf(db'.report_itr, last'.id) = last'.log[1].id \cap db.itr
             /\ \A x \in DOMAIN db'.report_itr :
                   x[1] = last'.id => db'.report_itr[x] = 1]_vars

\* the call with a known and an unknown id succeeded and left the known one
ITRReplacedWitness ==
    /\ last.op = "add_itr_to_report" /\ last.ret = "report"
    /\ last.log[1].id = {NumITR, NumITR + 1}
    /\ RowsOf(db.report_itr, last.id) = {NumITR}

\* C14: setting the equipment of a report replaces, idempotently: after a
\* successful equipment_done or save with the equipment list S, the rows of
\* report_equipment of the report are one row for each equipment of S and
\* nothing else, whatever rows the report had before.
EquipmentReplaced ==
    [][(last'.op \in {"process_equipment_done", "process_save_report"}
          /\ last'.ret = "ok" /\ "equipment_list" \in DOMAIN fsm.data) =>
             Restrict(db'.report_equipment,
                      {x \in DOMAIN db'.report_equipment : x[1] = last'.id})
                = PairBag(last'.id, fsm.data.equipment_list \cap db.equipment)]_vars

\* a later save wrote both pieces of equipment to a report
EquipmentReplacedWitness ==
    /\ last.op = "process_save_report" /\ last.ret = "ok"
    /\ last.id \in DOMAIN db.reports
    /\ db.reports[last.id].sent_at > 1
    /\ RowsOf(db.report_equipment, last.id) = EquipmentIds

(***************************************************************************)
(* Overlapping calls.                                                      *)
(***************************************************************************)
\* C15: overlapping saves of one report are serialized, the last writer
\* wins: when all of them have committed, the equipment rows of the report
\* are exactly one caller's set, never a mixture of the callers' sets.
OverlapLastWriterWins ==
    (DOMAIN inflight = Sessions /\ \A p \in Sessions : inflight[p].pc = "done") =>
       \E p \in Sessions :
          EquipmentRowsOf(db, inflight[p].data.report_id)
             = PairBag(inflight[p].data.report_id, inflight[p].data.equipment_list)

(***************************************************************************)
(* The binding of telegram accounts.                                       *)
(***************************************************************************)
\* C16: at most one User row holds any given non-null telegram_id, also
\* when the codes of two users are entered from one telegram account and
\* when the administrator's row is created at the first event.
TelegramIdUnique ==
    \A u \in DOMAIN db.users : \A v \in DOMAIN db.users :
       (u # v /\ db.users[u].telegram_id # NULL) =>
          db.users[u].telegram_id # db.users[v].telegram_id

\* the code of a second user has just been entered from an account that is
\* bound to another user, the administrator's row having been created
TelegramIdUniqueWitness ==
    /\ AdminKnown
    /\ last.op = "process_access_code"
    /\ last.ret = "raised"
    /\ get_user_by_access_code(db, last.id) # NULL
    /\ get_user_by_telegram_id(db, last.log[1].id) # NULL
    /\ get_user_by_telegram_id(db, last.log[1].id) # get_user_by_access_code(db, last.id)
    /\ TelegramIdUnique

\* C17: the binding of a telegram account is permanent: a user whose
\* telegram_id has been bound with the access code keeps that telegram_id
\* for as long as the user exists.
TelegramBindingPermanent ==
    [][\A u \in DOMAIN db.users \cap DOMAIN db'.users :
          (db.users[u].access_code # NULL /\ db.users[u].telegram_id # NULL) =>
             db'.users[u].telegram_id = db.users[u].telegram_id]_vars

(***************************************************************************)
(* Reports and their objects.                                              *)
(***************************************************************************)
\* C18: every report's object_id refers to an existing object, also when
\* the object is deleted between its selection and the creation of the
\* report, and after the deletion of an object or of a client.
ReportObjectExists ==
    \A r \in DOMAIN db.reports : db.reports[r].object_id \in db.objects

\* the object selected in the conversation has been deleted together with
\* its reports while a report of another object remains
ReportObjectExistsWitness ==
    /\ last.op = "delete_object"
    /\ last.ret = "true"
    /\ LogHas(last.log, "delete_report")
    /\ Get(fsm.data, "object_id", NULL) = last.id
    /\ last.id \notin db.objects

\* C19: creating a draft for an object that does not exist fails and
\* creates no report row.
CreateDraftNeedsObject ==
    [][(last'.op = "process_report_type_selection"
          /\ Get(fsm.data, "object_id", NULL) \notin db.objects) =>
             /\ last'.ret \in {"raised", "KeyError"}
             /\ db'.reports = db.reports]_vars

\* the object selected was deleted before the report type was chosen, and
\* the creation has failed
CreateDraftNeedsObjectWitness ==
    /\ last.op = "process_report_type_selection"
    /\ last.ret = "raised"
    /\ fsm.state = "select_report_type"
    /\ "object_id" \in DOMAIN fsm.data
    /\ fsm.data.object_id \notin db.objects
    /\ db.objects # {}

\* C20: every report row is a draft at the moment it is created, whatever
\* creates it: its status is "draft" and its sent_at and recipient_id are
\* unset.
CreatedAsDraft ==
    [][\A r \in DOMAIN db'.reports \ DOMAIN db.reports :
          /\ db'.reports[r].status = "draft"
          /\ db'.reports[r].sent_at = NULL
          /\ db'.reports[r].recipient_id = NULL]_vars

(***************************************************************************)
(* The type and the work category of a report.                             *)
(***************************************************************************)
\* C21: every stored report has a type that is "morning" or "evening", from
\* its creation on.
ReportTypeMorningOrEvening ==
    \A r \in DOMAIN db.reports : db.reports[r].type \in valid_types

\* C22: a report becomes sent only with a report_type that is one of the
\* four work categories and a type that is "morning" or "evening".
SentOnlyIfValid ==
    [][\A r \in DOMAIN db'.reports :
          (/\ db'.reports[r].status = "sent"
           /\ r \in DOMAIN db.reports => db.reports[r].status # "sent") =>
             /\ db'.reports[r].report_type \in valid_report_types
             /\ db'.reports[r].type \in valid_types]_vars

(***************************************************************************)
(* Deleting objects, clients and reports.                                  *)
(***************************************************************************)
\* C23: deleting an object that does not exist returns false and changes no
\* stored row (the handler's own statement may fail before delete_object is
\* called); so a second deletion of an object returns false.
DeleteAbsentObject ==
    [][(last'.op = "delete_object" /\ last'.id \notin db.objects) =>
          /\ db' = db
          /\ \/ last'.ret = "false"
             \/ last'.ret = "raised" /\ last'.log = <<>>]_vars

\* an object that was deleted has been deleted a second time
DeleteAbsentObjectWitness ==
    /\ last.op = "delete_object"
    /\ last.ret = "false"
    /\ last.id \in ObjectIds \ db.objects
    /\ last.log # <<>>

\* C24: deleting a client that does not exist changes nothing and is
\* reported as not done; once the deletion of a client returns true there
\* is no client_objects row of the client, no client row and no row of the
\* client's user.
DeleteClientRemovesClientAndUser ==
    [][last'.op = "delete_client" =>
          IF last'.id \notin DOMAIN db.clients
          THEN db' = db /\ last'.ret \in {"false", "not_found"}
          ELSE last'.ret = "true" =>
                  /\ ~RefsClient(db', last'.id)
                  /\ last'.id \notin DOMAIN db'.clients
                  /\ db.clients[last'.id].user_id \notin DOMAIN db'.users]_vars

\* a client with linked objects and reports has been deleted
DeleteClientRemovesClientAndUserWitness ==
    /\ last.op = "delete_client"
    /\ last.ret = "true"
    /\ LogHas(last.log, "delete_report")
    /\ LogHas(last.log, "delete_user")
    /\ last.id \notin DOMAIN db.clients

\* C25: the deletion of a client deletes every report of every object
\* linked to the client, and leaves in place those object rows and the
\* links of other clients to them.
DeleteClientKeepsObjects ==
    [][(last'.op = "delete_client" /\ last'.ret = "true") =>
          /\ \A r \in DOMAIN db.reports :
                db.reports[r].object_id \in RowsOf(db.client_objects, last'.id) =>
                   r \notin DOMAIN db'.reports
          /\ db'.objects = db.objects
          /\ \A x \in DOMAIN db.client_objects :
                x[1] # last'.id =>
                   /\ x \in DOMAIN db'.client_objects
                   /\ db'.client_objects[x] = db.client_objects[x]]_vars

\* a client has been deleted with the reports of its objects; every object
\* is still there and is linked to another client
DeleteClientKeepsObjectsWitness ==
    /\ last.op = "delete_client"
    /\ last.ret = "true"
    /\ LogHas(last.log, "delete_report")
    /\ db.objects = ObjectIds
    /\ \A o \in ObjectIds : \E x \in DOMAIN db.client_objects : x[1] # last.id /\ x[2] = o

\* C26: once the deletion of a report returns true, the report row, its
\* equipment, ITR and worker join rows and its photos are gone; for a report
\* that does not exist it returns false and changes nothing.
DeleteReportRemovesAll ==
    [][last'.op = "delete_report" =>
          IF last'.id \notin DOMAIN db.reports
          THEN db' = db /\ last'.ret = "false"
          ELSE last'.ret = "true" =>
                  /\ last'.id \notin DOMAIN db'.reports
                  /\ RowsOf(db'.report_equipment, last'.id) = {}
                  /\ RowsOf(db'.report_itr, last'.id) = {}
                  /\ RowsOf(db'.report_workers, last'.id) = {}
                  /\ \A p \in DOMAIN db'.report_photos :
                        db'.report_photos[p] # last'.id]_vars

\* a report with equipment, ITR, workers and photos has been deleted
DeleteReportRemovesAllWitness ==
    /\ last.op = "delete_report"
    /\ last.ret = "true"
    /\ last.id \notin DOMAIN db.reports
    /\ LogHas(last.log, "delete_report_photos")
    /\ db.report_photos # <<>>

(***************************************************************************)
(* The join tables.                                                        *)
(***************************************************************************)
\* C27: the pair of foreign keys is the key of report_itr, report_workers
\* and client_objects: none of them ever holds two rows with the same pair,
\* also after a worker selection that includes workers already associated
\* is confirmed.
JoinPairsUnique ==
    /\ \A x \in DOMAIN db.report_itr : db.report_itr[x] = 1
    /\ \A x \in DOMAIN db.report_workers : db.report_workers[x] = 1
    /\ \A x \in DOMAIN db.client_objects : db.client_objects[x] = 1

\* a selection made of workers that were all associated already has been
\* confirmed, for a report with ITR, after a second object was linked
JoinPairsUniqueWitness ==
    /\ last.op = "process_workers_done"
    /\ last.ret = "ok"
    /\ ~LogHas(last.log, "insert_report_workers")
    /\ Cardinality(RowsOf(db.report_workers, last.id)) >= 2
    /\ RowsOf(db.report_itr, last.id) # {}
    /\ \E x \in DOMAIN db.client_objects : x[2] # 1

(***************************************************************************)
(* Photos and comments.                                                    *)
(***************************************************************************)
\* C28: adding photos is additive: when the handling of a photo ends, every
\* photo stored before is still stored; a photo that was saved is the one
\* new row, of the report it was sent for; a photo that failed adds nothing.
PhotosAdditive ==
    [][(last'.op = "process_photo" /\ last'.ret \in {"ok", "download_failed", "raised"}) =>
          /\ \A p \in DOMAIN db.report_photos :
                p \in DOMAIN db'.report_photos /\ db'.report_photos[p] = db.report_photos[p]
          /\ IF last'.ret = "ok"
             THEN /\ DOMAIN db'.report_photos \ DOMAIN db.report_photos = {seq'.photos}
                  /\ db'.report_photos[seq'.photos] = last'.id
             ELSE db'.report_photos = db.report_photos]_vars

\* the download of a photo has failed for a report that holds a photo
PhotosAdditiveWitness ==
    /\ last.op = "process_photo"
    /\ last.ret = "download_failed"
    /\ \E p \in DOMAIN db.report_photos : db.report_photos[p] = last.id

\* C29: setting the comments is an idempotent overwrite: after it the
\* comments of the report are the text given, whatever they were, and
\* setting the same text again changes no stored row.
CommentsOverwrite ==
    [][(last'.op = "process_comments" /\ last'.ret = "ok") =>
          /\ db'.reports[last'.id].comments = fsm'.data.comments
          /\ db' = [db EXCEPT !.reports[last'.id].comments = fsm'.data.comments]
          /\ db.reports[last'.id].comments = fsm'.data.comments => db' = db]_vars

\* comments that had been set have been replaced with another text
CommentsOverwriteWitness ==
    /\ last.op = "process_comments"
    /\ last.ret = "ok"
    /\ last.log[1].id \in Texts
    /\ db.reports[last.id].comments \in Texts \ {last.log[1].id}

(***************************************************************************)
(* Properties of the queries (SpecQuery).                                  *)
(***************************************************************************)
DateRangeOps ==
    {"get_reports_by_date_range", "report_utils.get_reports_by_date_range"}

\* the result lists, once each, exactly the reports dated within
\* [start, end], both ends included
DateRangeExact(op) ==
    (last.op = op /\ last.ret = "ok") =>
        /\ \A i, j \in DOMAIN last.log : last.log[i] = last.log[j] => i = j
        /\ {last.log[i] : i \in DOMAIN last.log}
              = {r \in DOMAIN db.reports :
                    last.id[1] <= db.reports[r].date /\ db.reports[r].date <= last.id[2]}

\* the result is in the order of dates, latest first
DateRangeDescending(op) ==
    (last.op = op /\ last.ret = "ok") =>
        \A i, j \in DOMAIN last.log :
            i < j => db.reports[last.log[i]].date >= db.reports[last.log[j]].date

\* C30: a query by date range returns exactly the reports with
\* start <= date <= end, both bounds included, ordered by date descending.
DateRangeQuery ==
    \A op \in DateRangeOps : DateRangeExact(op) /\ DateRangeDescending(op)

\* what holds of each of the two queries
CrudDateRangeQuery ==
    /\ DateRangeExact("get_reports_by_date_range")
    /\ DateRangeDescending("get_reports_by_date_range")

ReportUtilsDateRangeExact ==
    DateRangeExact("report_utils.get_reports_by_date_range")

LinkedObjects(d, telegram_id) ==
    {o \in d.objects :
        \E u \in DOMAIN d.users, c \in DOMAIN d.clients :
            /\ d.users[u].telegram_id = telegram_id
            /\ d.clients[c].user_id = u
            /\ <<c, o>> \in DOMAIN d.client_objects}

OtherColumns(d, r) ==
    [c \in ReportColumns \ {"status", "sent_at", "recipient_id"} |-> d.reports[r][c]]

\* a save of a stored report has succeeded
SavedStored == 
    /\ last'.op = "process_save_report"
    /\ last'.ret = "ok"
    /\ last'.id \in DOMAIN db.reports

\* C33: a successful save of a report changes only status, sent_at and
\* recipient_id: its ITR, worker and equipment associations, its photos,
\* its comments, its type and its object are after the save what the store
\* held immediately before it, whatever the conversation state holds.
SaveChangesOnlyStatus ==
    [][SavedStored =>
          /\ OtherColumns(db', last'.id) = OtherColumns(db, last'.id)
          /\ db'.report_itr = db.report_itr
          /\ db'.report_workers = db.report_workers
          /\ db'.report_equipment = db.report_equipment
          /\ db'.report_photos = db.report_photos]_vars

\* the same for the associations alone
SaveKeepsAssociations ==
    [][SavedStored =>
          /\ db'.report_itr = db.report_itr
          /\ db'.report_workers = db.report_workers
          /\ db'.report_equipment = db.report_equipment]_vars

\* the ITR, worker, equipment and photo rows of report r
AssociationsOf(d, r) ==
    [itr |-> {x \in DOMAIN d.report_itr : x[1] = r},
     workers |-> {x \in DOMAIN d.report_workers : x[1] = r},
     equipment |-> {x \in DOMAIN d.report_equipment : x[1] = r},
     photos |-> {p \in DOMAIN d.report_photos : d.report_photos[p] = r}]

\* C34: a sent report is immutable: once its status is sent, no operation
\* that leaves the report in place changes its ITR, worker, equipment or
\* photo rows or its comments.
SentImmutable ==
    [][\A r \in DOMAIN db.reports \cap DOMAIN db'.reports :
          db.reports[r].status = "sent" =>
              /\ db'.reports[r].comments = db.reports[r].comments
              /\ AssociationsOf(db', r) = AssociationsOf(db, r)]_vars

\* the same for the steps of the report editor alone
SentImmutableInEditor ==
    [][last'.op \notin {"delete_report", "send_report"} =>
          \A r \in DOMAIN db.reports \cap DOMAIN db'.reports :
              db.reports[r].status = "sent" =>
                  /\ db'.reports[r].comments = db.reports[r].comments
                  /\ AssociationsOf(db', r) = AssociationsOf(db, r)]_vars

\* C35: a save or an update for a report id that the store does not hold
\* (the report was deleted while the conversation was open) never creates
\* a row of reports.
MissingReportNotCreated ==
    [][(/\ last'.op \in {"process_save_report", "process_comments"}
        /\ "report_id" \in DOMAIN fsm.data
        /\ fsm.data.report_id \notin DOMAIN db.reports) =>
          DOMAIN db'.reports \subseteq DOMAIN db.reports]_vars

\* C36: a worker who was in the report and was unchecked before the
\* selection was confirmed is no longer associated with the report after
\* the confirmation.
UncheckedWorkerRemoved ==
    [][(last'.op = "process_workers_done" /\ last'.ret = "ok") =>
          \A w \in RowsOf(db.report_workers, last'.id) :
              w \notin Get(fsm.data, "workers_list", {}) =>
                  w \notin RowsOf(db'.report_workers, last'.id)]_vars

(***************************************************************************)
(* Properties of personnel and equipment deletion (SpecPersonnel).         *)
(***************************************************************************)
PersonnelDeleteOps == {"process_delete_itr", "process_delete_worker",
                       "confirm_equipment_delete"}

\* C37: deleted personnel and equipment leave no join row.  After an ITR,
\* Worker or Equipment record is deleted, no row of report_itr,
\* report_workers or report_equipment references the deleted record: every
\* row of the three join tables references a record that exists, and the
\* record of a deletion that succeeded is absent and unreferenced.
NoJoinRowOfDeleted ==
    /\ \A x \in DOMAIN db.report_itr : x[2] \in db.itr
    /\ \A x \in DOMAIN db.report_workers : x[2] \in db.workers
    /\ \A x \in DOMAIN db.report_equipment : x[2] \in db.equipment
    /\ (last.op = "process_delete_itr" /\ last.ret = "ok") =>
          last.id \notin db.itr /\ ~RefsItr(db, last.id)
    /\ (last.op = "process_delete_worker" /\ last.ret = "ok") =>
          last.id \notin db.workers /\ ~RefsWorker(db, last.id)
    /\ (last.op = "confirm_equipment_delete" /\ last.ret = "ok") =>
          last.id \notin db.equipment /\ ~RefsEquipment(db, last.id)

\* an ITR has been deleted while the draft has an ITR, a worker and a piece
\* of equipment attached
NoJoinRowOfDeletedWitness ==
    /\ last.op = "process_delete_itr"
    /\ last.ret = "ok"
    /\ last.id \notin db.itr
    /\ db.report_itr # EmptyBag
    /\ db.report_workers # EmptyBag
    /\ db.report_equipment # EmptyBag

\* the store has refused to delete a worker that the draft references
DeleteReferencedRefused ==
    ~(/\ last.op = "process_delete_worker"
      /\ last.ret = "raised"
      /\ last.log = <<>>
      /\ RefsWorker(db, last.id))

(***************************************************************************)
(* Properties of the access to the admin routers (SpecRoles).              *)
(***************************************************************************)
\* C38: admin handlers run for admins only.  No handler of an admin router
\* is ever executed for an event whose sender is not resolved to a User
\* with role admin: when a handler has been executed, the sender's
\* telegram id resolves to a User and its role is admin.
AdminHandlersForAdminsOnly ==
    (last.op = "admin_router_event" /\ last.ret = "executed") =>
        LET user == get_user_by_telegram_id(db, last.id)
        IN  user # NULL /\ db.users[user].role = ADMIN_ROLE

\* a handler of an admin router has been executed while a client's account
\* is bound to a telegram user
AdminHandlersForAdminsOnlyWitness ==
    /\ last.op = "admin_router_event"
    /\ last.ret = "executed"
    /\ \E u \in DOMAIN db.users :
          db.users[u].role = CLIENT_ROLE /\ db.users[u].telegram_id \in TelegramIds

\* a bound client's callback that matches an admin handler is refused
ClientRefusedByAdminRouter ==
    ~(/\ last.op = "admin_router_event"
      /\ last.ret = "refused"
      /\ get_user_by_telegram_id(db, last.id) # NULL)

\* the handlers that show or send reports to a client
ClientDeliveryOps == {"process_history_type", "process_view_report",
                      "process_client_export_pdf"}

\* C39: a client is shown or can export only reports whose object is
\* linked to that client through client_objects; a report of any other
\* object is never delivered to them, whatever object id their request
\* carries.
ClientSeesOnlyLinked ==
    (last.op \in ClientDeliveryOps /\ last.ret = "ok") =>
        \A i \in DOMAIN last.log :
            db.reports[last.log[i]].object_id \in LinkedObjects(db, last.id)

\* the export alone delivers only reports of linked objects
ExportOnlyLinked ==
    (last.op = "process_client_export_pdf" /\ last.ret = "ok") =>
        \A i \in DOMAIN last.log :
            db.reports[last.log[i]].object_id \in LinkedObjects(db, last.id)

\* the export has refused an object that is not the client's
ExportRefusesUnlinked ==
    ~(last.op = "process_client_export_pdf" /\ last.ret = "no_access")

(***************************************************************************)
(* Properties of the cancellation (Spec).                                  *)
(***************************************************************************)
\* C40: after the administrator cancels report creation, the draft Report
\* row that the creation flow had already created no longer exists: when
\* process_cancel_report has ended, the report of the cancelled
\* conversation is not in the store.
CancelRemovesDraft ==
    (last.op = "process_cancel_report" /\ last.id # NULL) =>
        last.id \notin DOMAIN db.reports

\* the cancellation ends the conversation
CancelClearsConversation ==
    last.op = "process_cancel_report" => fsm = Cleared

====
